---------------------------- MODULE Spec2Model ----------------------------
(***************************************************************************)
(* A model of the splat rendering pipeline of GaussianSplats3D:            *)
(* SplatMesh (src/src/SplatMesh.js), the container that packs the splats   *)
(* of one or more scenes into global arrays and data textures, keeps the   *)
(* global index maps and runs the distance pre-computation on the device.  *)
(*                                                                         *)
(* Conventions.  JavaScript arrays and typed arrays are sequences; the     *)
(* element the code addresses as a[i] is a[i + 1] here.  Scene indexes,    *)
(* splat indexes and the values stored in the index maps are 0-based as in *)
(* the code.  A device object (WebGL handle) is a positive number, null    *)
(* and undefined are 0.                                                    *)
(***************************************************************************)
EXTENDS Integers, Sequences, FiniteSets, TLC

(***************************************************************************)
(* Bounds of the model.                                                    *)
(***************************************************************************)
\* Largest getMaxSplatCount() of a splat buffer of the mesh model.
MaxSplats == 2
\* buildSplatIndexMaps is applied to every list of at most MaxListLen buffers
\* whose max splat counts are at most MaxListCount.
MaxListLen == 3
MaxListCount == 3

(***************************************************************************)
(* Sequence helpers for JavaScript arrays.                                 *)
(***************************************************************************)
\* a[idx] = v on a typed array: a write past the end is ignored.
TypedSet(arr, idx, v) ==
    IF idx >= 0 /\ idx < Len(arr) THEN [arr EXCEPT ![idx + 1] = v] ELSE arr

\* new TypedArray(n): n zeros.
Zeros(n) == [k \in 1..n |-> 0]

RECURSIVE SumSeq(_)
SumSeq(s) == IF s = <<>> THEN 0 ELSE Head(s) + SumSeq(Tail(s))

(***************************************************************************)
(* SplatMesh.buildSplatIndexMaps.  The argument is the list of the         *)
(* buffers' getMaxSplatCount() values, the only thing the function reads   *)
(* of a buffer.  The inner loop writes local index i and scene index s at  *)
(* slot totalSplatCount + i for i = 0 .. maxSplatCount - 1.                *)
(***************************************************************************)
IndexMapsInnerLoopDropsScene(maps, s, maxSplatCount) ==
    [localSplatIndexMap |->
        [k \in 1..(maps.totalSplatCount + maxSplatCount) |->
            IF k <= maps.totalSplatCount THEN maps.localSplatIndexMap[k]
            ELSE k - 1 - maps.totalSplatCount],
     sceneIndexMap |->
        [k \in 1..(maps.totalSplatCount + maxSplatCount) |->
            IF k <= maps.totalSplatCount THEN maps.sceneIndexMap[k] ELSE 0],
     totalSplatCount |-> maps.totalSplatCount + maxSplatCount]

IndexMapsInnerLoop(maps, s, maxSplatCount) ==
    [localSplatIndexMap |->
        [k \in 1..(maps.totalSplatCount + maxSplatCount) |->
            IF k <= maps.totalSplatCount THEN maps.localSplatIndexMap[k]
            ELSE k - 1 - maps.totalSplatCount],
     sceneIndexMap |->
        [k \in 1..(maps.totalSplatCount + maxSplatCount) |->
            IF k <= maps.totalSplatCount THEN maps.sceneIndexMap[k] ELSE s],
     totalSplatCount |-> maps.totalSplatCount + maxSplatCount]

RECURSIVE IndexMapsOuterLoop(_, _, _)
IndexMapsOuterLoop(maps, maxSplatCounts, s) ==
    IF s < Len(maxSplatCounts)
    THEN IndexMapsOuterLoop(IndexMapsInnerLoop(maps, s, maxSplatCounts[s + 1]),
                            maxSplatCounts, s + 1)
    ELSE maps

buildSplatIndexMaps(maxSplatCounts) ==
    LET maps == IndexMapsOuterLoop(
                    [localSplatIndexMap |-> <<>>, sceneIndexMap |-> <<>>,
                     totalSplatCount |-> 0], maxSplatCounts, 0)
    IN [localSplatIndexMap |-> maps.localSplatIndexMap,
        sceneIndexMap |-> maps.sceneIndexMap]


(***************************************************************************)
(* The point-cloud source buffers (SplatBuffer, an external collaborator). *)
(* Buffer b holds at most its getMaxSplatCount() splats; how many of       *)
(* them are loaded so far is the variable splatCount[b].  Buffer 1 is      *)
(* streamed (one splat is loaded at the start), buffers 2 and 3 hold all   *)
(* their splats from the start.  Every attribute value is a positive       *)
(* number, so a slot that was never written (0) is told from a written     *)
(* one.                                                                    *)
(***************************************************************************)
SplatBuffers == {1, 2, 3}

SplatBuffer_getMaxSplatCount(b) == IF b = 2 THEN 1 ELSE MaxSplats

SrcCenter(b, i, k) == 16 * b + 4 * i + k + 1
SrcCovariance(b, i, k) == 32 * b + 8 * i + k + 1
SrcColor(b, i, k) == 20 * b + 4 * i + k + 1

\* "No value" for an optional numeric argument (undefined).
Undefined == 0 - 1
\* The null passed for the transform when none is to be applied.
NullTransform == 0 - 1

\* A scene transform is identified by the position option it was built from
\* (0: the default position); applying transform t moves a value by 64 * t.
Transformed(t, v) == IF t = NullTransform THEN v ELSE v + 64 * t

\* 2^e for e >= 0.
RECURSIVE Pow2(_)
Pow2(e) == IF e <= 0 THEN 1 ELSE 2 * Pow2(e - 1)

\* floor(log2(v)) for v >= 1.
RECURSIVE Log2(_)
Log2(v) == IF v <= 1 THEN 0 ELSE 1 + Log2(v \div 2)

\* THREE.DataUtils.toHalfFloat on a whole number 0 <= v < 2048: the 16-bit
\* pattern with exponent bias 15 and 10 mantissa bits.
toHalfFloat(v) ==
    IF v = 0 THEN 0
    ELSE LET e == Log2(v)
         IN (e + 15) * 1024 + (v - Pow2(e)) * Pow2(10 - e)

\* Util.uintEncodedFloat on a whole number 0 <= v < 2^24: the IEEE-754
\* single precision bit pattern (bias 127, 23 mantissa bits).
uintEncodedFloat(v) ==
    IF v = 0 THEN 0
    ELSE LET e == Log2(v)
         IN (e + 127) * 8388608 + (v - Pow2(e)) * Pow2(23 - e)

\* Util.rgbaArrayToInteger: the four bytes at offset as one little-endian word.
rgbaArrayToInteger(arr, offset) ==
    arr[offset + 1] + arr[offset + 2] * 256 + arr[offset + 3] * 65536
        + arr[offset + 4] * 16777216

\* Component k of splat i of buffer b as fillSplat{Center,Covariance,Color}Array
\* writes it: the transform applies to centers and covariances, and at
\* compression level 1 a covariance is written as a half float.
SplatValue(array, b, i, k, transform, level) ==
    IF array = "centers" THEN Transformed(transform, SrcCenter(b, i, k))
    ELSE IF array = "colors" THEN SrcColor(b, i, k)
    ELSE IF level = 1 THEN toHalfFloat(Transformed(transform, SrcCovariance(b, i, k)))
    ELSE Transformed(transform, SrcCovariance(b, i, k))

\* The n components of splat i, written at splat slot destSplat.
RECURSIVE FillSplat(_, _, _, _, _, _, _, _, _)
FillSplat(out, array, b, transform, level, n, i, destSplat, k) ==
    IF k >= n THEN out
    ELSE FillSplat(TypedSet(out, destSplat * n + k, SplatValue(array, b, i, k, transform, level)), array, b, transform, level, n, i, destSplat, k + 1)

\* The loop shared by SplatBuffer.fillSplat{Center,Covariance,Color}Array:
\* splats srcFrom .. srcTo (inclusive; defaults 0 and splatCount - 1) are
\* written, n components each, from splat slot destFrom on.
RECURSIVE FillLoop(_, _, _, _, _, _, _, _, _)
FillLoop(out, array, b, transform, level, n, i, srcTo, destSplat) ==
    IF i > srcTo THEN out
    ELSE FillLoop(FillSplat(out, array, b, transform, level, n, i, destSplat, 0), array, b, transform, level, n, i + 1, srcTo, destSplat + 1)

FillRange(out, array, b, transform, level, n, count, srcFrom, srcTo, destFrom) ==
    LET from == IF srcFrom = Undefined \/ srcFrom = 0 THEN 0 ELSE srcFrom
        to == IF srcTo = Undefined \/ srcTo = 0 THEN count - 1 ELSE srcTo
        dest == IF destFrom = Undefined THEN from ELSE destFrom
    IN FillLoop(out, array, b, transform, level, n, from, to, dest)

fillSplatCenterArray(b, count, out, transform, srcFrom, srcTo, destFrom) ==
    FillRange(out, "centers", b, transform, 0, 3, count, srcFrom, srcTo, destFrom)

fillSplatCovarianceArray(b, count, out, transform, srcFrom, srcTo, destFrom, level) ==
    FillRange(out, "covariances", b, transform, level, 6, count, srcFrom, srcTo, destFrom)

fillSplatColorArray(b, count, out, transform, srcFrom, srcTo, destFrom) ==
    FillRange(out, "colors", b, transform, 0, 4, count, srcFrom, srcTo, destFrom)

(***************************************************************************)
(* SplatScene: a splat buffer, a position, a rotation quaternion, a scale  *)
(* and the transform composed of them.  The transform is kept as its       *)
(* translation along x, the part the extraction of splat data applies.     *)
(***************************************************************************)
createScene(splatBuffer, position, rotation, scale) ==
    [splatBuffer |-> splatBuffer, position |-> position, quaternion |-> rotation,
     scale |-> scale, transform |-> position[1]]

\* SplatScene.copyTransformData: the scene takes the other scene's position,
\* quaternion, scale and transform.
copyTransformData(newScene, existingScene) ==
    [newScene EXCEPT !.position = existingScene.position,
                     !.quaternion = existingScene.quaternion,
                     !.scale = existingScene.scale,
                     !.transform = existingScene.transform]

\* The options of a scene: each of position, rotation and scale is an array,
\* or <<>> where the option is absent.  sceneOptions[i] || {} is NoOptions.
NoOptions == [position |-> <<>>, rotation |-> <<>>, scale |-> <<>>]

\* options[name] || value
OptionOr(option, value) == IF option = <<>> THEN value ELSE option

\* SplatMesh.buildScenes.
buildScenes(splatBuffers, sceneOptions) ==
    [i \in 1..Len(splatBuffers) |->
        LET options == IF i <= Len(sceneOptions) THEN sceneOptions[i] ELSE NoOptions
            positionArray == OptionOr(options.position, <<0, 0, 0>>)
            rotationArray == OptionOr(options.rotation, <<0, 0, 0, 1>>)
            scaleArray == OptionOr(options.scale, <<1, 1, 1>>)
        IN createScene(splatBuffers[i], positionArray, rotationArray, scaleArray)]

MaxSplatCounts(splatBuffers) ==
    [i \in 1..Len(splatBuffers) |-> SplatBuffer_getMaxSplatCount(splatBuffers[i])]

getTotalMaxSplatCountForSplatBuffers(splatBuffers) ==
    SumSeq(MaxSplatCounts(splatBuffers))

getTotalMaxSplatCountForScenes(scns) ==
    SumSeq([i \in 1..Len(scns) |-> SplatBuffer_getMaxSplatCount(scns[i].splatBuffer)])

getTotalSplatCountForScenes(scns, counts) ==
    SumSeq([i \in 1..Len(scns) |-> counts[scns[i].splatBuffer]])

(***************************************************************************)
(* The state.  One variable per field of the SplatMesh instance, the two   *)
(* variables of the closure of setupDistancesComputationTransformFeedback, *)
(* and the environment: the buffers' splat counts, the WebGL context and   *)
(* the distance passes in flight.                                          *)
(***************************************************************************)
VARIABLES
    cfg,                \* the constructor's parameters
    splatCount,         \* splatCount[b]: SplatBuffer.getSplatCount() of buffer b
    renderer,           \* this.renderer (0: undefined)
    scenes,
    globalSplatIndexToLocalSplatIndexMap,
    globalSplatIndexToSceneIndexMap,
    lastBuildSplatCount,
    lastBuildScenes,
    lastBuildMaxSplatCount,
    lastBuildSceneCount,
    geometry,           \* "dummy", "built" or "null"
    material,           \* "dummy", "built" or "null"
    splatDataTextures,
    distancesTransformFeedback,
    currentRenderer,    \* closure variable (0: undefined)
    currentMaxSplatCount, \* closure variable (Undefined before the first setup)
    gl,                 \* the WebGL context
    passes,             \* the distance passes issued by computeDistancesOnGPU
    last,               \* the last call made on the mesh and how it ended
    pure,               \* input and result of a pure function under check
    splatTreeWorker,    \* SplatTree.js: the module's worker and its messages
    splatTrees,         \* the SplatTree instances
    processCalls,       \* the processSplatMesh calls made, with their promises
    loader              \* KSplatLoader.js: the closure of one loadFromURL call

vars == <<cfg, splatCount, renderer, scenes, globalSplatIndexToLocalSplatIndexMap,
          globalSplatIndexToSceneIndexMap, lastBuildSplatCount, lastBuildScenes,
          lastBuildMaxSplatCount, lastBuildSceneCount, geometry, material,
          splatDataTextures, distancesTransformFeedback, currentRenderer,
          currentMaxSplatCount, gl, passes, last, pure, splatTreeWorker,
          splatTrees, processCalls, loader>>

MeshVars ==
    <<cfg, splatCount, renderer, scenes, globalSplatIndexToLocalSplatIndexMap,
      globalSplatIndexToSceneIndexMap, lastBuildSplatCount, lastBuildScenes,
      lastBuildMaxSplatCount, lastBuildSceneCount, geometry, material,
      splatDataTextures, distancesTransformFeedback, currentRenderer,
      currentMaxSplatCount, gl, passes, last>>

TreeVars == <<splatTreeWorker, splatTrees, processCalls>>

\* No file is being loaded.
NoLoader == [call |-> "none"]

\* The state a method works on: the fields above, the error it threw ("none"
\* while it runs) and the device calls it made.
This ==
    [cfg |-> cfg, splatCount |-> splatCount, renderer |-> renderer, scenes |-> scenes,
     globalSplatIndexToLocalSplatIndexMap |-> globalSplatIndexToLocalSplatIndexMap,
     globalSplatIndexToSceneIndexMap |-> globalSplatIndexToSceneIndexMap,
     lastBuildSplatCount |-> lastBuildSplatCount, lastBuildScenes |-> lastBuildScenes,
     lastBuildMaxSplatCount |-> lastBuildMaxSplatCount,
     lastBuildSceneCount |-> lastBuildSceneCount,
     geometry |-> geometry, material |-> material,
     splatDataTextures |-> splatDataTextures,
     distancesTransformFeedback |-> distancesTransformFeedback,
     currentRenderer |-> currentRenderer, currentMaxSplatCount |-> currentMaxSplatCount,
     gl |-> gl, passes |-> passes,
     err |-> "none", deleted |-> <<>>, created |-> {}, texturesDisposed |-> 0]

\* throw e: the call ends with the error recorded.
Throw(m, e) == [m EXCEPT !.err = e]

(***************************************************************************)
(* Scene and count accessors.                                              *)
(***************************************************************************)
getSplatCount(m) == getTotalSplatCountForScenes(m.scenes, m.splatCount)

getMaxSplatCount(m) == getTotalMaxSplatCountForScenes(m.scenes)

\* The index check of getScene with the upper bound off by one.
ValidSceneIndexUpToLength(m, sceneIndex) ==
    sceneIndex >= 0 /\ sceneIndex <= Len(m.scenes)

\* getScene(sceneIndex) is scenes[sceneIndex] for an index in range; out of
\* range it throws.
ValidSceneIndex(m, sceneIndex) == sceneIndex >= 0 /\ sceneIndex < Len(m.scenes)

getScene(m, sceneIndex) == m.scenes[sceneIndex + 1]

\* this.scenes[sceneIndex]: undefined (NoScene) outside the array.
NoScene == [splatBuffer |-> 0, position |-> <<>>, quaternion |-> <<>>, scale |-> <<>>,
            transform |-> 0]

SceneAt(m, sceneIndex) ==
    IF sceneIndex >= 0 /\ sceneIndex < Len(m.scenes) THEN m.scenes[sceneIndex + 1]
    ELSE NoScene

\* getScene as a call of its own: the scene returned and the error thrown.
getSceneOrThrow(m, sceneIndex) ==
    IF ~ValidSceneIndex(m, sceneIndex)
    THEN [err |-> "InvalidSceneIndex", scene |-> NoScene]
    ELSE [err |-> "none", scene |-> SceneAt(m, sceneIndex)]

\* getSceneTransform: getScene, scene.updateTransform() (the transform of
\* the model is up to date at all times) and outTransform.copy.
getSceneTransform(m, sceneIndex, outTransform) ==
    IF getSceneOrThrow(m, sceneIndex).err # "none"
    THEN [err |-> getSceneOrThrow(m, sceneIndex).err, outTransform |-> outTransform]
    ELSE [err |-> "none",
          outTransform |-> getSceneOrThrow(m, sceneIndex).scene.transform]

getSceneIndexForSplat(m, globalIndex) ==
    m.globalSplatIndexToSceneIndexMap[globalIndex + 1]

getSplatLocalIndex(m, globalIndex) ==
    m.globalSplatIndexToLocalSplatIndexMap[globalIndex + 1]

checkForMultiSceneUpdateConditionOverTwo(m, sinceLastBuild) ==
    IF Len(m.scenes) > 2 /\ sinceLastBuild THEN Throw(m, "MultiSceneUpdate") ELSE m

checkForMultiSceneUpdateCondition(m, sinceLastBuild) ==
    IF Len(m.scenes) > 1 /\ sinceLastBuild THEN Throw(m, "MultiSceneUpdate") ELSE m

\* this.lastBuildSplatCount[i]: undefined past the end of the array.
LastBuildSplatCountAt(m, i) ==
    IF i < Len(m.lastBuildSplatCount) THEN m.lastBuildSplatCount[i + 1] ELSE Undefined

\* this.lastBuildSplatCount used as a number (the array is coerced): 0 for
\* the empty array, the element of a one-element array, NaN otherwise.
NaN == 0 - 2
LastBuildSplatCountAsNumber(m) ==
    IF Len(m.lastBuildSplatCount) = 0 THEN 0
    ELSE IF Len(m.lastBuildSplatCount) = 1 THEN m.lastBuildSplatCount[1]
    ELSE NaN

(***************************************************************************)
(* fillSplatDataArrays.  An array that is not wanted (null) is the empty   *)
(* sequence: nothing is written to either.  applySceneTransform is         *)
(* "undefined", "null", "true" or "false".  The result holds the three     *)
(* arrays and the error thrown.                                            *)
(***************************************************************************)
\* The default turned round: applied when the mesh is dynamic.
ApplySceneTransformWhenDynamic(m, applySceneTransform) ==
    IF applySceneTransform \in {"undefined", "null"} THEN m.cfg.dynamicMode
    ELSE applySceneTransform = "true"

ApplySceneTransformDefault(m, applySceneTransform) ==
    IF applySceneTransform \in {"undefined", "null"} THEN ~m.cfg.dynamicMode
    ELSE applySceneTransform = "true"

RECURSIVE FillScenesLoop(_, _, _, _, _, _, _)
FillScenesLoop(m, arrays, i, destfrom, apply, sinceLastBuild, forceDestFromZero) ==
    IF i >= Len(m.scenes) THEN arrays
    ELSE
      LET srcFrom == IF sinceLastBuild THEN LastBuildSplatCountAt(m, i) ELSE Undefined
          srcTo == Undefined
          localDestFrom == IF sinceLastBuild
                           THEN (IF forceDestFromZero THEN 0 ELSE srcFrom)
                           ELSE destfrom
          scene == getScene(m, i)
          splatBuffer == scene.splatBuffer
          count == m.splatCount[splatBuffer]
          sceneTransform == IF apply THEN scene.transform ELSE NullTransform
          filled ==
            [covariances |->
                fillSplatCovarianceArray(splatBuffer, count, arrays.covariances,
                    sceneTransform, srcFrom, srcTo, localDestFrom,
                    IF m.cfg.halfPrecisionCovariancesOnGPU THEN 1 ELSE 0),
             centers |->
                fillSplatCenterArray(splatBuffer, count, arrays.centers,
                    sceneTransform, srcFrom, srcTo, localDestFrom),
             colors |->
                fillSplatColorArray(splatBuffer, count, arrays.colors,
                    sceneTransform, srcFrom, srcTo, localDestFrom),
             err |-> "none"]
      IN FillScenesLoop(m, filled, i + 1, destfrom + count, apply,
                        sinceLastBuild, forceDestFromZero)

fillSplatDataArrays(m, covariances, centers, colors, applySceneTransform, sinceLastBuild, forceDestFromZero) ==
    LET arrays == [covariances |-> covariances, centers |-> centers,
                   colors |-> colors, err |-> "none"]
    IN IF checkForMultiSceneUpdateCondition(m, sinceLastBuild).err # "none"
       THEN [arrays EXCEPT !.err = "MultiSceneUpdate"]
       ELSE FillScenesLoop(m, arrays, 0, 0,
                ApplySceneTransformDefault(m, applySceneTransform),
                sinceLastBuild, forceDestFromZero)

(***************************************************************************)
(* The data textures.  A padded array is kept as its true length and the   *)
(* prefix that was ever written; the rest is zero.  A texture descriptor   *)
(* also says whether the renderer has uploaded the texture to the device   *)
(* (renderer.properties.get(texture).__webglTexture) and which region      *)
(* updateDataTexture pushed last.                                          *)
(***************************************************************************)
NoRegion == [dataStart |-> 0, dataEnd |-> 0, startRow |-> 0, endRow |-> 0,
             byteOffset |-> 0, pushes |-> 0]

NoTexture == [data |-> <<>>, length |-> 0, size |-> <<0, 0>>, texture |-> "none",
              needsUpdate |-> FALSE, uploaded |-> FALSE, pushed |-> NoRegion]

NoBaseData == [covariances |-> <<>>, centers |-> <<>>, colors |-> <<>>]

\* this.splatDataTextures = {} (the constructor) and = null (disposeTextures).
EmptySplatDataTextures ==
    [state |-> "empty", baseData |-> NoBaseData, covariances |-> NoTexture,
     centerColors |-> NoTexture, tansformIndexes |-> NoTexture]

NullSplatDataTextures == [EmptySplatDataTextures EXCEPT !.state = "null"]

DataTexture(data, length, size) ==
    [data |-> data, length |-> length, size |-> size, texture |-> "live",
     needsUpdate |-> TRUE, uploaded |-> FALSE, pushed |-> NoRegion]

\* a[idx] read from a typed array: undefined past the end.
TypedGet(arr, idx) == IF idx >= 0 /\ idx < Len(arr) THEN arr[idx + 1] ELSE Undefined

\* padded[idx] = v on a padded array: the written prefix grows as needed.
PaddedSet(desc, idx, v) ==
    IF idx < 0 \/ idx >= desc.length THEN desc
    ELSE IF idx < Len(desc.data) THEN [desc EXCEPT !.data[idx + 1] = v]
    ELSE [desc EXCEPT !.data =
            [k \in 1..(idx + 1) |->
                IF k <= Len(desc.data) THEN desc.data[k]
                ELSE IF k = idx + 1 THEN v ELSE 0]]

\* A covariance stored into the padded array: undefined becomes NaN in a
\* Float32Array and 0 in a Uint16Array.
StoredCovariance(m, v) ==
    IF v = Undefined
    THEN (IF m.cfg.halfPrecisionCovariancesOnGPU THEN 0 ELSE NaN)
    ELSE v

\* uintEncodedFloat(undefined) is the bit pattern of NaN.
EncodedCenter(v) == IF v = Undefined THEN 2143289344 ELSE uintEncodedFloat(v)

\* rgbaArrayToInteger reading past the end of colors: NaN, stored as 0.
EncodedColor(colors, colorsBase) ==
    IF colorsBase + 4 > Len(colors) THEN 0 ELSE rgbaArrayToInteger(colors, colorsBase)

disposeTextures(m) ==
    LET live == Cardinality({key \in {"covariances", "centerColors", "tansformIndexes"} :
                                m.splatDataTextures[key].texture = "live"})
    IN [m EXCEPT !.texturesDisposed = @ + live,
                 !.splatDataTextures = NullSplatDataTextures]

\* The doubling loop with <= for <: a texture that is exactly large enough
\* is doubled once more.
RECURSIVE DoubleHeightWhileNotLarger(_, _, _, _)
DoubleHeightWhileNotLarger(y, maxSplatCount, elementsPerTexel, elementsPerSplat) ==
    IF 4096 * y * elementsPerTexel <= maxSplatCount * elementsPerSplat
    THEN DoubleHeightWhileNotLarger(y * 2, maxSplatCount, elementsPerTexel,
                                    elementsPerSplat)
    ELSE y

\* computeDataTextureSize: 4096 wide, 1024 high, the height doubled as long
\* as the texture is too small.
RECURSIVE DoubleHeight(_, _, _, _)
DoubleHeight(y, maxSplatCount, elementsPerTexel, elementsPerSplat) ==
    IF 4096 * y * elementsPerTexel < maxSplatCount * elementsPerSplat
    THEN DoubleHeight(y * 2, maxSplatCount, elementsPerTexel, elementsPerSplat)
    ELSE y

computeDataTextureSize(maxSplatCount, elementsPerTexel, elementsPerSplat) ==
    <<4096, DoubleHeight(1024, maxSplatCount, elementsPerTexel, elementsPerSplat)>>

\* updateCenterColorsPaddedData(to, from, ...): slots to .. from - 1; no slot
\* when the start is NaN.
RECURSIVE updateCenterColorsPaddedData(_, _, _, _, _)
updateCenterColorsPaddedData(to, from, centers, colors, paddedCenterColors) ==
    IF to = NaN \/ to >= from THEN paddedCenterColors
    ELSE LET c == to
             colorsBase == c * 4
             centersBase == c * 3
             centerColorsBase == c * 4
             p0 == PaddedSet(paddedCenterColors, centerColorsBase,
                             EncodedColor(colors, colorsBase))
             p1 == PaddedSet(p0, centerColorsBase + 1,
                             EncodedCenter(TypedGet(centers, centersBase)))
             p2 == PaddedSet(p1, centerColorsBase + 2,
                             EncodedCenter(TypedGet(centers, centersBase + 1)))
             p3 == PaddedSet(p2, centerColorsBase + 3,
                             EncodedCenter(TypedGet(centers, centersBase + 2)))
         IN updateCenterColorsPaddedData(c + 1, from, centers, colors, p3)

\* for (c = from; c < to; c++) paddedTransformIndexes[c] = sceneIndexMap[c]
\* (an index past the end of the map reads undefined and stores 0).
RECURSIVE FillTransformIndexes(_, _, _, _)
FillTransformIndexes(m, padded, c, to) ==
    IF c = NaN \/ c >= to THEN padded
    ELSE LET v == TypedGet(m.globalSplatIndexToSceneIndexMap, c)
         IN FillTransformIndexes(m, PaddedSet(padded, c, IF v = Undefined THEN 0 ELSE v),
                                 c + 1, to)

\* for (i = from; i < to; i++) paddedCovariances[i] = baseData.covariances[i]
RECURSIVE CopyCovariances(_, _, _, _, _)
CopyCovariances(m, padded, covariances, i, to) ==
    IF i = NaN \/ i >= to THEN padded
    ELSE CopyCovariances(m,
            PaddedSet(padded, i, StoredCovariance(m, TypedGet(covariances, i))),
            covariances, i + 1, to)

\* SplatMesh.computeTextureUpdateRegion (texelsPerSplat is a whole number
\* for the three textures: 6 / 2, 4 / 4 and 1 / 1).
computeTextureUpdateRegion(startSplat, endSplat, textureWidth, textureHeight, elementsPerTexel, elementsPerSplat) ==
    LET texelsPerSplat == elementsPerSplat \div elementsPerTexel
        startSplatTexels == startSplat * texelsPerSplat
        startRow == startSplatTexels \div textureWidth
        startRowElement == startRow * textureWidth * elementsPerTexel
        endSplatTexels == endSplat * texelsPerSplat
        endRow == endSplatTexels \div textureWidth
        endRowEndElement == endRow * textureWidth * elementsPerTexel
                                + (textureWidth * elementsPerTexel)
    IN [dataStart |-> startRowElement, dataEnd |-> endRowEndElement,
        startRow |-> startRow, endRow |-> endRow]

\* The rows updateDataTexture pushes with texSubImage2D and the byte offset of
\* the view it pushes them from, for the splats from startSplat up to
\* splatCount_ - 1.
PushedRegion(startSplat, splatCount_, size, elementsPerTexel, elementsPerSplat, bytesPerElement) ==
    LET updateRegion == computeTextureUpdateRegion(startSplat, splatCount_ - 1,
                            size[1], size[2], elementsPerTexel, elementsPerSplat)
    IN [dataStart |-> updateRegion.dataStart, dataEnd |-> updateRegion.dataEnd,
        startRow |-> updateRegion.startRow, endRow |-> updateRegion.endRow,
        byteOffset |-> updateRegion.dataStart * bytesPerElement,
        pushes |-> 1]

\* updateDataTexture: the region pushed is recorded in the descriptor.  With a
\* NaN start nothing is pushed.
updateDataTexture(m, textureDesc, elementsPerTexel, elementsPerSplat, bytesPerElement) ==
    LET start == LastBuildSplatCountAsNumber(m)
    IN IF start = NaN THEN textureDesc
       ELSE [textureDesc EXCEPT !.pushed =
                PushedRegion(start, getSplatCount(m), textureDesc.size,
                             elementsPerTexel, elementsPerSplat, bytesPerElement)]

(***************************************************************************)
(* uploadSplatDataToTextures.                                              *)
(***************************************************************************)
\* The three textures of the full path, from the arrays just filled.
FullTextures(m, filled, maxSplatCount, splatCount_, covTexSize, centersColsTexSize, transformIndexesTexSize) ==
    [state |-> "built",
     baseData |-> [covariances |-> filled.covariances, centers |-> filled.centers,
                   colors |-> filled.colors],
     covariances |->
        DataTexture(filled.covariances, covTexSize[1] * covTexSize[2] * 2, covTexSize),
     centerColors |->
        updateCenterColorsPaddedData(0, splatCount_, filled.centers, filled.colors,
            DataTexture(Zeros(maxSplatCount * 4),
                        centersColsTexSize[1] * centersColsTexSize[2] * 4,
                        centersColsTexSize)),
     tansformIndexes |->
        IF m.cfg.dynamicMode
        THEN FillTransformIndexes(m,
                DataTexture(Zeros(maxSplatCount),
                            transformIndexesTexSize[1] * transformIndexesTexSize[2] * 1,
                            transformIndexesTexSize),
                0, splatCount_)
        ELSE NoTexture]

\* The full path once the old textures are disposed of.  A mesh without a
\* built material throws at the first uniform.
FullUpload(m, maxSplatCount) ==
    IF m.material # "built" THEN Throw(m, "TypeError")
    ELSE [m EXCEPT !.splatDataTextures =
            FullTextures(m,
                fillSplatDataArrays(m, Zeros(maxSplatCount * 6), Zeros(maxSplatCount * 3),
                                    Zeros(maxSplatCount * 4), "undefined", FALSE, FALSE),
                maxSplatCount, getSplatCount(m),
                computeDataTextureSize(maxSplatCount, 2, 6),
                computeDataTextureSize(maxSplatCount, 4, 4),
                computeDataTextureSize(maxSplatCount, 1, 4))]

\* The full path (sinceLastBuild false): everything is extracted and packed
\* anew.
UploadFull(m) == FullUpload(disposeTextures(m), getMaxSplatCount(m))

\* What the update path does to one texture once its padded data is written:
\* a texture the renderer has not uploaded yet is flagged, an uploaded one
\* gets the changed rows pushed.
RefreshTexture(m, textureDesc, elementsPerTexel, elementsPerSplat, bytesPerElement) ==
    IF ~textureDesc.uploaded THEN [textureDesc EXCEPT !.needsUpdate = TRUE]
    ELSE updateDataTexture(m, textureDesc, elementsPerTexel, elementsPerSplat,
                           bytesPerElement)

\* Start of the copied range in the update path, as the code computes it.
UpdateStart(m) == LastBuildSplatCountAsNumber(m)

\* The transform indexes of the update path (dynamic mode only).
UpdateTransformIndexes(m, start, splatCount_) ==
    IF ~m.cfg.dynamicMode THEN m
    ELSE [m EXCEPT !.splatDataTextures.tansformIndexes =
            RefreshTexture(m, FillTransformIndexes(m, @, start, splatCount_), 1, 1, 1)]

\* The centers and colors of the update path, then the transform indexes.
UpdateCenterColors(m, start, splatCount_) ==
    UpdateTransformIndexes(
        [m EXCEPT !.splatDataTextures.centerColors =
            RefreshTexture(m,
                updateCenterColorsPaddedData(start, splatCount_,
                    m.splatDataTextures.baseData.centers,
                    m.splatDataTextures.baseData.colors, @),
                4, 4, 4)],
        start, splatCount_)

\* The covariances texture of the update path: renderer.properties is read
\* once the padded covariances are written, and throws without a renderer.
UpdateCovariancesTexture(m, start, splatCount_) ==
    IF m.renderer = 0 THEN Throw(m, "TypeError")
    ELSE UpdateCenterColors(
            [m EXCEPT !.splatDataTextures.covariances =
                RefreshTexture(m, @, 2, 6,
                               IF m.cfg.halfPrecisionCovariancesOnGPU THEN 2 ELSE 4)],
            start, splatCount_)

\* The base arrays are refilled in place and the new covariances copied.
UpdateBaseData(m, filled, start, splatCount_) ==
    UpdateCovariancesTexture(
        [m EXCEPT !.splatDataTextures.baseData =
                    [covariances |-> filled.covariances, centers |-> filled.centers,
                     colors |-> filled.colors],
                  !.splatDataTextures.covariances =
                    CopyCovariances(m, @, filled.covariances,
                                    IF start = NaN THEN NaN ELSE start * 6,
                                    splatCount_ * 6)],
        start, splatCount_)

\* The update path (sinceLastBuild true), entered with at most one scene.
\* Without textures from a full upload, reading baseData throws.
UploadUpdate(m) ==
    IF m.splatDataTextures.state # "built" THEN Throw(m, "TypeError")
    ELSE UpdateBaseData(m,
            fillSplatDataArrays(m, m.splatDataTextures.baseData.covariances,
                                m.splatDataTextures.baseData.centers,
                                m.splatDataTextures.baseData.colors,
                                "undefined", TRUE, FALSE),
            UpdateStart(m), getSplatCount(m))

uploadSplatDataToTextures(m, sinceLastBuild) ==
    IF checkForMultiSceneUpdateCondition(m, sinceLastBuild).err # "none"
    THEN checkForMultiSceneUpdateCondition(m, sinceLastBuild)
    ELSE IF ~sinceLastBuild THEN UploadFull(m)
    ELSE UploadUpdate(m)

(***************************************************************************)
(* The WebGL context.  gl.objects[h] is the object with handle h: its kind, *)
(* whether it is alive (created and not deleted) and, for a buffer, its     *)
(* data store.  A handle is free again once its object is deleted; the mesh *)
(* keeps no handle of an object it has deleted (it clears the field that    *)
(* held it), so a handle in use never names two objects.  boundVao and      *)
(* boundProgram are VERTEX_ARRAY_BINDING and CURRENT_PROGRAM.               *)
(* ExternalObject stands for an object of the renderer's own (a program or  *)
(* vertex array the mesh did not create).                                   *)
(***************************************************************************)
ExternalObject == 0 - 1

NoGLObjects == [objects |-> <<>>, boundVao |-> 0, boundProgram |-> 0]

DeadObject == [kind |-> "none", live |-> FALSE, hasStore |-> FALSE, data |-> <<>>]

IsLive(g, h) == h >= 1 /\ h <= Len(g.objects) /\ g.objects[h].live

LiveObjects(g) == {h \in 1..Len(g.objects) : g.objects[h].live}

\* gl.create*(): the handle of the new object.
NextHandle(m) ==
    LET free == {h \in 1..Len(m.gl.objects) : ~m.gl.objects[h].live}
    IN IF free = {} THEN Len(m.gl.objects) + 1
       ELSE CHOOSE h \in free : \A other \in free : h <= other

Create(m, kind) ==
    LET h == NextHandle(m)
        object == [kind |-> kind, live |-> TRUE, hasStore |-> FALSE, data |-> <<>>]
    IN [m EXCEPT !.gl.objects = IF h > Len(@) THEN Append(@, object)
                                ELSE [@ EXCEPT ![h] = object],
                 !.created = @ \cup {h}]

\* gl.delete*(h): the call is logged; a live object dies, and a deleted vertex
\* array that is bound is unbound.  null and dead handles change nothing.
Delete(m, h) ==
    LET logged == [m EXCEPT !.deleted = Append(@, h)]
    IN IF ~IsLive(m.gl, h) THEN logged
       ELSE [logged EXCEPT !.gl.objects[h] = DeadObject,
                           !.gl.boundVao = IF @ = h THEN 0 ELSE @]

\* gl.bindBuffer(ARRAY_BUFFER, h); gl.bufferData(ARRAY_BUFFER, data, ...):
\* with no live buffer bound the call fails and changes nothing.
BufferData(m, h, data) ==
    IF ~IsLive(m.gl, h) THEN m
    ELSE [m EXCEPT !.gl.objects[h].hasStore = TRUE, !.gl.objects[h].data = data]

\* gl.bufferSubData(ARRAY_BUFFER, byteOffset, data) on 4-byte elements: the
\* call fails when the range does not lie inside the buffer's data store.
BufferSubData(m, h, byteOffset, data) ==
    LET first == byteOffset \div 4
    IN IF ~IsLive(m.gl, h) \/ byteOffset = NaN \/ byteOffset < 0 THEN m
       ELSE IF first + Len(data) > Len(m.gl.objects[h].data) THEN m
       ELSE [m EXCEPT !.gl.objects[h].data =
                [k \in 1..Len(@) |->
                    IF k > first /\ k <= first + Len(data) THEN data[k - first]
                    ELSE @[k]]]

BindVertexArray(m, h) == [m EXCEPT !.gl.boundVao = h]

UseProgram(m, h) == [m EXCEPT !.gl.boundProgram = h]

\* if (current) gl.bindVertexArray(current) / gl.useProgram(current)
RestoreVertexArray(m, currentVao) ==
    IF currentVao # 0 THEN BindVertexArray(m, currentVao) ELSE m

RestoreProgram(m, currentProgram) ==
    IF currentProgram # 0 THEN UseProgram(m, currentProgram) ELSE m

(***************************************************************************)
(* The device objects of the distance computation.                         *)
(***************************************************************************)
NoDistancesTransformFeedback ==
    [id |-> 0, vertexShader |-> 0, fragmentShader |-> 0, program |-> 0,
     centersBuffer |-> 0, transformIndexesBuffer |-> 0, outDistancesBuffer |-> 0,
     vao |-> 0]

\* The field is cleared before gl.deleteBuffer reads it, so deleteBuffer is
\* handed null and the centers buffer stays alive.
DisposeCentersBuffer(m) ==
    IF m.distancesTransformFeedback.centersBuffer # 0
    THEN Delete([m EXCEPT !.distancesTransformFeedback.centersBuffer = 0], 0)
    ELSE m

\* The output buffer deleted with its field left as it is.
DisposeOutDistancesBufferKeepsHandle(m) ==
    IF m.distancesTransformFeedback.outDistancesBuffer # 0
    THEN Delete(m, m.distancesTransformFeedback.outDistancesBuffer)
    ELSE m

DisposeOutDistancesBuffer(m) ==
    IF m.distancesTransformFeedback.outDistancesBuffer # 0
    THEN [Delete(m, m.distancesTransformFeedback.outDistancesBuffer)
             EXCEPT !.distancesTransformFeedback.outDistancesBuffer = 0]
    ELSE m

disposeDistancesComputationGPUBufferResources(m) ==
    IF m.renderer = 0 THEN m
    ELSE DisposeOutDistancesBuffer(DisposeCentersBuffer(m))

DisposeVao(m) ==
    IF m.distancesTransformFeedback.vao # 0
    THEN [Delete(m, m.distancesTransformFeedback.vao)
             EXCEPT !.distancesTransformFeedback.vao = 0]
    ELSE m

DisposeProgram(m) ==
    IF m.distancesTransformFeedback.program # 0
    THEN [Delete(Delete(Delete(m, m.distancesTransformFeedback.program),
                        m.distancesTransformFeedback.vertexShader),
                 m.distancesTransformFeedback.fragmentShader)
             EXCEPT !.distancesTransformFeedback.program = 0,
                    !.distancesTransformFeedback.vertexShader = 0,
                    !.distancesTransformFeedback.fragmentShader = 0]
    ELSE m

DisposeTransformFeedback(m) ==
    IF m.distancesTransformFeedback.id # 0
    THEN [Delete(m, m.distancesTransformFeedback.id)
             EXCEPT !.distancesTransformFeedback.id = 0]
    ELSE m

disposeDistancesComputationGPUResources(m) ==
    IF m.renderer = 0 THEN m
    ELSE DisposeTransformFeedback(
            disposeDistancesComputationGPUBufferResources(DisposeProgram(DisposeVao(m))))

(***************************************************************************)
(* setupDistancesComputationTransformFeedback.  outcome says how the       *)
(* device answers when the program is built: "ok", or the step that fails  *)
(* ("vertexShader", "fragmentShader": compilation; "link": linking).       *)
(***************************************************************************)
SetupOutcomes == {"ok", "vertexShader", "fragmentShader", "link"}

\* createShader: a shader that does not compile is deleted and null returned.
CreateShader(m, compiles) ==
    IF compiles THEN Create(m, "shader")
    ELSE Delete(Create(m, "shader"), NextHandle(m))

\* The checks after the two createShader calls, linking, and the fields
\* assigned: the second assignment overwrites vertexShader with the fragment
\* shader, the fragmentShader field is not assigned.
\* Linking with the program stored before the link status is read.
LinkProgramStoresFirst(m, program, vertexShader, fragmentShader, outcome) ==
    IF vertexShader = 0 \/ fragmentShader = 0 THEN Throw(m, "CompileError")
    ELSE IF outcome = "link"
    THEN Throw([Delete(Delete(Delete(m, program), fragmentShader), vertexShader)
                   EXCEPT !.distancesTransformFeedback.program = program],
               "LinkError")
    ELSE [m EXCEPT !.distancesTransformFeedback.program = program,
                   !.distancesTransformFeedback.vertexShader = fragmentShader]

LinkProgram(m, program, vertexShader, fragmentShader, outcome) ==
    IF vertexShader = 0 \/ fragmentShader = 0 THEN Throw(m, "CompileError")
    ELSE IF outcome = "link"
    THEN Throw(Delete(Delete(Delete(m, program), fragmentShader), vertexShader),
               "LinkError")
    ELSE [m EXCEPT !.distancesTransformFeedback.program = program,
                   !.distancesTransformFeedback.vertexShader = fragmentShader]

CompileFragmentShader(m, program, vertexShader, outcome) ==
    LinkProgram(CreateShader(m, outcome # "fragmentShader"), program, vertexShader,
                IF outcome # "fragmentShader" THEN NextHandle(m) ELSE 0, outcome)

CompileVertexShader(m, program, outcome) ==
    CompileFragmentShader(CreateShader(m, outcome # "vertexShader"), program,
                          IF outcome # "vertexShader" THEN NextHandle(m) ELSE 0, outcome)

\* The block that creates, compiles and links the program.
SetupProgram(m, outcome) ==
    CompileVertexShader(Create(m, "program"), NextHandle(m), outcome)

CreateCentersBuffer(m) ==
    [Create(m, "buffer") EXCEPT !.distancesTransformFeedback.centersBuffer = NextHandle(m)]

CreateTransformIndexesBuffer(m) ==
    IF m.cfg.dynamicMode
    THEN [Create(m, "buffer")
             EXCEPT !.distancesTransformFeedback.transformIndexesBuffer = NextHandle(m)]
    ELSE m

CreateOutDistancesBuffer(m) ==
    [Create(m, "buffer")
        EXCEPT !.distancesTransformFeedback.outDistancesBuffer = NextHandle(m)]

\* gl.bufferData(ARRAY_BUFFER, maxSplatCount * 4, STATIC_READ)
AllocateOutDistancesBuffer(m, maxSplatCount) ==
    BufferData(m, m.distancesTransformFeedback.outDistancesBuffer, Zeros(maxSplatCount))

CreateTransformFeedback(m, rebuildGPUObjects) ==
    IF rebuildGPUObjects
    THEN [Create(m, "transformFeedback")
             EXCEPT !.distancesTransformFeedback.id = NextHandle(m)]
    ELSE m

\* The bindings are put back, each only when something was bound, and the
\* closure records what was set up.
FinishSetup(m, maxSplatCount, currentVao, currentProgram) ==
    [RestoreVertexArray(RestoreProgram(m, currentProgram), currentVao)
        EXCEPT !.currentRenderer = m.renderer,
               !.currentMaxSplatCount = maxSplatCount]

\* From gl.useProgram on: attribute locations, buffers, transform feedback
\* object.  gl.getAttribLocation(null, ...) throws.
SetupBuffers(m, rebuildGPUObjects, maxSplatCount, currentVao, currentProgram) ==
    IF m.err # "none" THEN m
    ELSE IF m.distancesTransformFeedback.program = 0
    THEN Throw(UseProgram(m, 0), "TypeError")
    ELSE FinishSetup(
            CreateTransformFeedback(
                AllocateOutDistancesBuffer(
                    CreateOutDistancesBuffer(
                        CreateTransformIndexesBuffer(
                            CreateCentersBuffer(
                                UseProgram(m, m.distancesTransformFeedback.program)))),
                    maxSplatCount),
                rebuildGPUObjects),
            maxSplatCount, currentVao, currentProgram)

CreateVertexArray(m) ==
    [Create(m, "vertexArray") EXCEPT !.distancesTransformFeedback.vao = NextHandle(m)]

BindOwnVertexArray(m) == BindVertexArray(m, m.distancesTransformFeedback.vao)

\* What follows the disposal: the bindings are read, then the objects made.
SetupObjects(m, rebuildGPUObjects, maxSplatCount, outcome) ==
    SetupBuffers(IF rebuildGPUObjects
                 THEN SetupProgram(BindOwnVertexArray(CreateVertexArray(m)), outcome)
                 ELSE BindOwnVertexArray(m),
                 rebuildGPUObjects, maxSplatCount, m.gl.boundVao, m.gl.boundProgram)

\* The decision which objects to rebuild, as the code takes it.
RebuildGPUObjects(m) == m.currentRenderer # m.renderer

RebuildBuffers(m) == m.currentMaxSplatCount # getMaxSplatCount(m)

setupDistancesComputationTransformFeedback(m, outcome) ==
    IF m.renderer = 0 THEN m
    ELSE IF ~RebuildGPUObjects(m) /\ ~RebuildBuffers(m) THEN m
    ELSE SetupObjects(IF RebuildGPUObjects(m)
                      THEN disposeDistancesComputationGPUResources(m)
                      ELSE disposeDistancesComputationGPUBufferResources(m),
                      RebuildGPUObjects(m), getMaxSplatCount(m), outcome)

(***************************************************************************)
(* The centers and transform indexes handed to the device.                 *)
(***************************************************************************)
\* The encoding with a factor of 100 for the factor of 1000.
RoundedHundredfold(num, den) == (200 * num + den) \div (2 * den)

\* Math.round(x * 1000.0) for x = num / den, den > 0: the nearest integer,
\* a half rounded up.
RoundedThousandfold(num, den) == (2000 * num + den) \div (2 * den)

\* The loop of getIntegerCenters over the filled float centers.
IntegerCenters(floatCenters, fillCount, componentCount) ==
    [k \in 1..(fillCount * componentCount) |->
        IF (k - 1) % componentCount = 3 THEN 1000
        ELSE RoundedThousandfold(
                floatCenters[((k - 1) \div componentCount) * 3
                                 + ((k - 1) % componentCount) + 1], 1)]

\* new Float32Array(fillCount * 3): a NaN length gives an empty array, a
\* negative one throws.
FillIntegerCenters(m, padFour, sinceLastBuild, fillCount) ==
    IF fillCount < 0 THEN [err |-> "RangeError", data |-> <<>>]
    ELSE [err |-> "none",
          data |-> IntegerCenters(
                      fillSplatDataArrays(m, <<>>, Zeros(fillCount * 3), <<>>,
                          "undefined", sinceLastBuild, sinceLastBuild).centers,
                      fillCount, IF padFour THEN 4 ELSE 3)]

\* fillCount of getIntegerCenters and getFloatCenters (NaN counts as 0 in
\* the array lengths and loop bounds it is used in).
FillCount(m, sinceLastBuild) ==
    IF ~sinceLastBuild THEN getSplatCount(m)
    ELSE IF LastBuildSplatCountAt(m, 0) = Undefined THEN 0
    ELSE getSplatCount(m) - LastBuildSplatCountAt(m, 0)

\* getIntegerCenters: the result holds the array and the error thrown.
getIntegerCenters(m, padFour, sinceLastBuild) ==
    IF checkForMultiSceneUpdateCondition(m, sinceLastBuild).err # "none"
    THEN [err |-> "MultiSceneUpdate", data |-> <<>>]
    ELSE FillIntegerCenters(m, padFour, sinceLastBuild, FillCount(m, sinceLastBuild))

\* getFloatCenters: floatCenters is read (as an argument of
\* fillSplatDataArrays) before its const declaration is reached, which throws
\* a ReferenceError once the multi-scene check has passed.
getFloatCenters(m, padFour, sinceLastBuild) ==
    IF checkForMultiSceneUpdateCondition(m, sinceLastBuild).err # "none"
    THEN [err |-> "MultiSceneUpdate", data |-> <<>>]
    ELSE [err |-> "ReferenceError", data |-> <<>>]

getTransformIndexes(m) == m.globalSplatIndexToSceneIndexMap

\* maxArray = new ArrayType(getMaxSplatCount() * 16); maxArray.set(srcCenters)
MaxArray(m, srcCenters) ==
    [k \in 1..(getMaxSplatCount(m) * 16) |->
        IF k <= Len(srcCenters) THEN srcCenters[k] ELSE 0]

SubBufferOffset(m) ==
    IF LastBuildSplatCountAsNumber(m) = NaN THEN NaN
    ELSE LastBuildSplatCountAsNumber(m) * 16

\* From the bindVertexArray on; m has the mesh's vertex array bound.
WriteCentersBuffer(m, sinceLastBuild, srcCenters, currentVao) ==
    IF srcCenters.err # "none" THEN Throw(m, srcCenters.err)
    ELSE RestoreVertexArray(
            IF sinceLastBuild
            THEN BufferSubData(m, m.distancesTransformFeedback.centersBuffer,
                               SubBufferOffset(m), srcCenters.data)
            ELSE BufferData(m, m.distancesTransformFeedback.centersBuffer,
                            MaxArray(m, srcCenters.data)),
            currentVao)

updateGPUCentersBufferForDistancesComputation(m, sinceLastBuild) ==
    IF checkForMultiSceneUpdateCondition(m, sinceLastBuild).err # "none"
    THEN checkForMultiSceneUpdateCondition(m, sinceLastBuild)
    ELSE IF m.renderer = 0 THEN m
    ELSE WriteCentersBuffer(BindOwnVertexArray(m), sinceLastBuild,
            IF m.cfg.integerBasedDistancesComputation
            THEN getIntegerCenters(m, TRUE, sinceLastBuild)
            ELSE getFloatCenters(m, FALSE, sinceLastBuild),
            m.gl.boundVao)

updateGPUTransformIndexesBufferForDistancesComputation(m) ==
    IF m.renderer = 0 \/ ~m.cfg.dynamicMode THEN m
    ELSE RestoreVertexArray(
            BufferData(BindOwnVertexArray(m),
                       m.distancesTransformFeedback.transformIndexesBuffer,
                       getTransformIndexes(m)),
            m.gl.boundVao)

\* The second refresh runs unless the first one threw.
UpdateTransformIndexesBuffer(m) ==
    IF m.err # "none" THEN m
    ELSE updateGPUTransformIndexesBufferForDistancesComputation(m)

\* The two device buffers, refreshed after the textures.
ResetDistancesData(m, sinceLastBuild) ==
    IF m.err # "none" \/ ~m.cfg.enableDistancesComputationOnGPU THEN m
    ELSE UpdateTransformIndexesBuffer(
            updateGPUCentersBufferForDistancesComputation(m, sinceLastBuild))

resetGPUDataFromSplatBuffers(m, sinceLastBuild) ==
    ResetDistancesData(uploadSplatDataToTextures(m, sinceLastBuild), sinceLastBuild)

(***************************************************************************)
(* setRenderer, disposeMeshData, dispose and build.                        *)
(***************************************************************************)
\* The calls setRenderer makes once the renderer is replaced.
SetupForRenderer(m, outcome) ==
    IF m.cfg.enableDistancesComputationOnGPU /\ getSplatCount(m) > 0
    THEN ResetDistancesData(setupDistancesComputationTransformFeedback(m, outcome),
                            FALSE)
    ELSE m

setRenderer(m, r, outcome) ==
    IF r = m.renderer THEN m
    ELSE SetupForRenderer([m EXCEPT !.renderer = r], outcome)

disposeMeshData(m) ==
    [m EXCEPT !.geometry = IF @ = "built" THEN "null" ELSE @,
              !.material = "null"]

DisposeDistances(m) ==
    IF m.cfg.enableDistancesComputationOnGPU
    THEN disposeDistancesComputationGPUResources(m)
    ELSE m

dispose(m) == DisposeDistances(disposeTextures(disposeMeshData(m)))

\* The update-build decision; m.scenes is the new scenes list already.
IsUpdateBuild(m, maxSplatCount) ==
    /\ m.lastBuildSceneCount = Len(m.scenes)
    /\ m.lastBuildMaxSplatCount = maxSplatCount
    /\ Len(m.scenes) = Len(m.lastBuildScenes)
    /\ \A i \in 1..Len(m.scenes) :
          m.scenes[i].splatBuffer = m.lastBuildScenes[i].splatBuffer

\* The bookkeeping at the end of build: slots 0 .. scenes.length - 1 of the two
\* arrays are assigned, longer arrays keep their tail.
RecordBuild(m) ==
    [m EXCEPT !.lastBuildSplatCount =
                  [i \in 1..(IF Len(@) > Len(m.scenes) THEN Len(@) ELSE Len(m.scenes)) |->
                      IF i <= Len(m.scenes) THEN m.splatCount[m.scenes[i].splatBuffer]
                      ELSE @[i]],
              !.lastBuildScenes =
                  [i \in 1..(IF Len(@) > Len(m.scenes) THEN Len(@) ELSE Len(m.scenes)) |->
                      IF i <= Len(m.scenes) THEN m.scenes[i] ELSE @[i]],
              !.lastBuildMaxSplatCount = getMaxSplatCount(m),
              !.lastBuildSceneCount = Len(m.scenes)]

\* From the transform feedback setup to the end of build.
RecordBuildUnlessThrown(m) == IF m.err # "none" THEN m ELSE RecordBuild(m)

\* The refresh of the device data follows the setup unless the setup threw.
ResetUnlessThrown(m, isUpdateBuild) ==
    IF m.err # "none" THEN m ELSE resetGPUDataFromSplatBuffers(m, isUpdateBuild)

BuildGPUData(m, isUpdateBuild, outcome) ==
    RecordBuildUnlessThrown(
        ResetUnlessThrown(
            IF m.cfg.enableDistancesComputationOnGPU
            THEN setupDistancesComputationTransformFeedback(m, outcome)
            ELSE m,
            isUpdateBuild))

\* A full build that leaves the index maps as they are.
ResetForFullBuildKeepsMaps(m, indexMaps) ==
    [disposeMeshData(m) EXCEPT
        !.lastBuildSplatCount = Zeros(Len(m.scenes)),
        !.lastBuildScenes = <<>>,
        !.lastBuildMaxSplatCount = 0,
        !.geometry = "built",
        !.material = "built"]

\* The two blocks of a build that is not an update build: the bookkeeping is
\* reset, then the mesh data and the index maps are made anew.
ResetForFullBuild(m, indexMaps) ==
    [disposeMeshData(m) EXCEPT
        !.lastBuildSplatCount = Zeros(Len(m.scenes)),
        !.lastBuildScenes = <<>>,
        !.lastBuildMaxSplatCount = 0,
        !.geometry = "built",
        !.material = "built",
        !.globalSplatIndexToLocalSplatIndexMap = indexMaps.localSplatIndexMap,
        !.globalSplatIndexToSceneIndexMap = indexMaps.sceneIndexMap]

\* build once this.scenes is assigned.
BuildWithScenes(m, splatBuffers, isUpdateBuild, outcome) ==
    BuildGPUData(IF isUpdateBuild THEN m
                 ELSE ResetForFullBuild(m, buildSplatIndexMaps(MaxSplatCounts(splatBuffers))),
                 isUpdateBuild, outcome)

\* The scenes as built from the options, none keeping a transform.
NewScenesAsBuilt(m, built, keepSceneTransforms) == built

\* The new scenes, with the transforms of the scenes they replace if asked.
NewScenes(m, built, keepSceneTransforms) ==
    [i \in 1..Len(built) |->
        IF keepSceneTransforms /\ i <= Len(m.scenes)
        THEN copyTransformData(built[i], getScene(m, i - 1))
        ELSE built[i]]

WithScenes(m, newScenes) == [m EXCEPT !.scenes = newScenes]

build(m, splatBuffers, sceneOptions, keepSceneTransforms, outcome) ==
    BuildWithScenes(
        WithScenes(m, NewScenes(m, buildScenes(splatBuffers, sceneOptions),
                                keepSceneTransforms)),
        splatBuffers,
        IsUpdateBuild(
            WithScenes(m, NewScenes(m, buildScenes(splatBuffers, sceneOptions),
                                    keepSceneTransforms)),
            getTotalMaxSplatCountForSplatBuffers(splatBuffers)),
        outcome)

(***************************************************************************)
(* computeDistancesOnGPU.  A pass is the fence of one call, the timers     *)
(* that will run its checkSync, its promise and the caller's output array. *)
(* fence is what gl.clientWaitSync will answer: "unsignaled"               *)
(* (TIMEOUT_EXPIRED), "signaled" (ALREADY_SIGNALED or CONDITION_SATISFIED) *)
(* or "failed" (WAIT_FAILED).                                              *)
(***************************************************************************)
\* Most passes issued in a run of the model.
MaxPasses == 2

NotRead == <<0 - 1>>

UnresolvedPasses(ps) == {p \in 1..Len(ps) : ps[p].promise = "pending"}

\* The view-projection of a call is given by the elements 2, 6 and 10 of
\* modelViewProjMatrix, the row the distance is taken along.
\* SplatMesh.getIntegerMatrixArray on that row: every element times 1000,
\* rounded (the elements of the model are whole numbers).
getIntegerMatrixArray(elements) ==
    [k \in 1..Len(elements) |-> RoundedThousandfold(elements[k], 1)]

\* tempMatrix.copy(scene.transform).premultiply(modelViewProjMatrix), elements
\* 2, 6, 10 and 14: the scene's transform is a translation by 64 * transform
\* along every axis.
SceneViewProj(transform, modelViewProjMatrix) ==
    <<modelViewProjMatrix[1], modelViewProjMatrix[2], modelViewProjMatrix[3],
      64 * transform * (modelViewProjMatrix[1] + modelViewProjMatrix[2]
                            + modelViewProjMatrix[3])>>

\* The uniform the shader reads for a splat: modelViewProj in static mode,
\* transforms[transformIndex] in dynamic mode (zero where no scene set it).
DistanceUniform(m, modelViewProjMatrix, transformIndex) ==
    IF ~m.cfg.dynamicMode THEN Append(modelViewProjMatrix, 0)
    ELSE IF ~ValidSceneIndex(m, transformIndex) THEN <<0, 0, 0, 0>>
    ELSE SceneViewProj(getScene(m, transformIndex).transform, modelViewProjMatrix)

\* Components per center in the centers buffer, and the fourth component
\* the shader sees.
CenterComponents(m) == IF m.cfg.integerBasedDistancesComputation THEN 4 ELSE 3

\* The int of GLSL ES 3.00 is a 32-bit two's complement integer whose
\* products and sums wrap.  Byte k of a, and the integer of four bytes.
Int32Byte(a, k) == (a \div (256 ^ k)) % 256

Int32OfBytes(b0, b1, b2, b3) ==
    b0 + 256 * b1 + 65536 * b2 + 16777216 * (IF b3 >= 128 THEN b3 - 256 ELSE b3)

\* The columns of the long multiplication of a and b, each with the carry of
\* the column below it.
Mul32Column0(a, b) == Int32Byte(a, 0) * Int32Byte(b, 0)

Mul32Column1(a, b) ==
    Int32Byte(a, 0) * Int32Byte(b, 1) + Int32Byte(a, 1) * Int32Byte(b, 0)
        + (Mul32Column0(a, b) \div 256)

Mul32Column2(a, b) ==
    Int32Byte(a, 0) * Int32Byte(b, 2) + Int32Byte(a, 1) * Int32Byte(b, 1)
        + Int32Byte(a, 2) * Int32Byte(b, 0) + (Mul32Column1(a, b) \div 256)

Mul32Column3(a, b) ==
    Int32Byte(a, 0) * Int32Byte(b, 3) + Int32Byte(a, 1) * Int32Byte(b, 2)
        + Int32Byte(a, 2) * Int32Byte(b, 1) + Int32Byte(a, 3) * Int32Byte(b, 0)
        + (Mul32Column2(a, b) \div 256)

\* a * b on ints: the low 32 bits of the product.
Mul32(a, b) ==
    Int32OfBytes(Mul32Column0(a, b) % 256, Mul32Column1(a, b) % 256,
                 Mul32Column2(a, b) % 256, Mul32Column3(a, b) % 256)

\* a + b on ints: the low 32 bits of the sum, by 16-bit halves.
Add32Low(a, b) == (a % 65536) + (b % 65536)

Add32High(a, b) == (a \div 65536) + (b \div 65536) + (Add32Low(a, b) \div 65536)

Add32(a, b) ==
    (((Add32High(a, b) + 32768) % 65536) - 32768) * 65536
        + (Add32Low(a, b) % 65536)

\* main of the integer shaders for the center at base in centers:
\* center.x * t.x + center.y * t.y + center.z * t.z, and in dynamic mode
\* + t.w * center.w.
IntegerDistance(centers, base, uniform, dynamicMode) ==
    IF dynamicMode
    THEN Add32(Add32(Add32(Mul32(centers[base + 1], uniform[1]),
                           Mul32(centers[base + 2], uniform[2])),
                     Mul32(centers[base + 3], uniform[3])),
               Mul32(uniform[4], centers[base + 4]))
    ELSE Add32(Add32(Mul32(centers[base + 1], uniform[1]),
                     Mul32(centers[base + 2], uniform[2])),
               Mul32(centers[base + 3], uniform[3]))

\* The vertex shader's main for the vertex k (from 1): the dot product of the
\* center and the uniform, on ints when integerBasedDistancesComputation.
ShaderDistance(m, centers, uniform, k) ==
    IF m.cfg.integerBasedDistancesComputation
    THEN IntegerDistance(centers, (k - 1) * CenterComponents(m), uniform,
                         m.cfg.dynamicMode)
    ELSE centers[(k - 1) * CenterComponents(m) + 1] * uniform[1]
            + centers[(k - 1) * CenterComponents(m) + 2] * uniform[2]
            + centers[(k - 1) * CenterComponents(m) + 3] * uniform[3]
            + (IF ~m.cfg.dynamicMode THEN 0 ELSE uniform[4])

\* The transform index attribute of vertex k.
TransformIndexOf(m, k) ==
    IF ~m.cfg.dynamicMode THEN 0
    ELSE m.gl.objects[m.distancesTransformFeedback.transformIndexesBuffer].data[k]

\* The draw is an error, and writes nothing, without the program or a
\* buffer, or with a buffer too short for the vertices drawn.
DrawSucceeds(m) ==
    /\ IsLive(m.gl, m.distancesTransformFeedback.program)
    /\ IsLive(m.gl, m.distancesTransformFeedback.outDistancesBuffer)
    /\ IsLive(m.gl, m.distancesTransformFeedback.centersBuffer)
    /\ Len(m.gl.objects[m.distancesTransformFeedback.centersBuffer].data)
            >= getSplatCount(m) * CenterComponents(m)
    /\ Len(m.gl.objects[m.distancesTransformFeedback.outDistancesBuffer].data)
            >= getSplatCount(m)
    /\ m.cfg.dynamicMode =>
          /\ IsLive(m.gl, m.distancesTransformFeedback.transformIndexesBuffer)
          /\ Len(m.gl.objects[m.distancesTransformFeedback.transformIndexesBuffer].data)
                >= getSplatCount(m)

\* The uniform as the call uploads it: integers in the integer mode.
UploadedUniform(m, modelViewProjMatrix, transformIndex) ==
    IF m.cfg.integerBasedDistancesComputation
    THEN getIntegerMatrixArray(DistanceUniform(m, modelViewProjMatrix, transformIndex))
    ELSE DistanceUniform(m, modelViewProjMatrix, transformIndex)

\* gl.drawArrays(POINTS, 0, getSplatCount()) under transform feedback: one
\* distance per splat into the output buffer.
DrawDistances(m, modelViewProjMatrix) ==
    IF ~DrawSucceeds(m) THEN m
    ELSE [m EXCEPT !.gl.objects[m.distancesTransformFeedback.outDistancesBuffer].data =
            [k \in 1..Len(@) |->
                IF k <= getSplatCount(m)
                THEN ShaderDistance(m,
                        m.gl.objects[m.distancesTransformFeedback.centersBuffer].data,
                        UploadedUniform(m, modelViewProjMatrix, TransformIndexOf(m, k)),
                        k)
                ELSE @[k]]]

\* The distances the draw of a pass wrote: one per splat, none when the
\* draw was an error.
WrittenDistances(m) ==
    IF DrawSucceeds(m)
    THEN SubSeq(m.gl.objects[m.distancesTransformFeedback.outDistancesBuffer].data,
                1, getSplatCount(m))
    ELSE <<>>

\* What follows the draw call: the bindings are put back, each only when
\* something was bound.
ComputeRestore(m, currentProgram, currentVao) ==
    RestoreVertexArray(RestoreProgram(m, currentProgram), currentVao)

\* The pass of a call; m is the mesh once the call has drawn.
NewPass(m) ==
    [fence |-> "unsignaled", syncLive |-> TRUE, timers |-> 1, promise |-> "pending",
     outComputedDistances |-> NotRead, overlapped |-> UnresolvedPasses(m.passes) # {},
     polled |-> FALSE, distances |-> WrittenDistances(m)]

\* gl.fenceSync and the promise whose executor schedules the first checkSync.
IssuePass(m, pass) == [m EXCEPT !.passes = Append(@, pass)]

\* Without a renderer the call returns undefined and no pass is issued.
IssueDrawnPass(m) == IssuePass(m, NewPass(m))

computeDistancesOnGPU(m, modelViewProjMatrix) ==
    IF m.renderer = 0 THEN m
    ELSE ComputeRestore(
            IssueDrawnPass(DrawDistances(
                              UseProgram(BindOwnVertexArray(m),
                                         m.distancesTransformFeedback.program),
                              modelViewProjMatrix)),
            m.gl.boundProgram, m.gl.boundVao)

\* gl.getBufferSubData(ARRAY_BUFFER, 0, outComputedDistances) on the current
\* output buffer; with no live buffer nothing is read.
ReadOutDistances(m, p) ==
    IF IsLive(m.gl, m.distancesTransformFeedback.outDistancesBuffer)
    THEN m.gl.objects[m.distancesTransformFeedback.outDistancesBuffer].data
    ELSE m.passes[p].outComputedDistances

\* The default branch of checkSync: the fence is deleted, the output buffer
\* read into the caller's array and the promise resolved.
CheckSyncDoneKeepsPolling(m, p) ==
    RestoreVertexArray(
        [BindOwnVertexArray(m) EXCEPT
            !.passes[p].syncLive = FALSE,
            !.passes[p].timers = @ + 1,
            !.passes[p].outComputedDistances = ReadOutDistances(m, p),
            !.passes[p].promise = "resolved"],
        m.gl.boundVao)

CheckSyncDone(m, p) ==
    RestoreVertexArray(
        [BindOwnVertexArray(m) EXCEPT
            !.passes[p].syncLive = FALSE,
            !.passes[p].outComputedDistances = ReadOutDistances(m, p),
            !.passes[p].promise = "resolved"],
        m.gl.boundVao)

\* The switch of checkSync on the status clientWaitSync returns.
CheckSyncStatus(m, p) ==
    IF m.passes[p].fence = "unsignaled"
    THEN [m EXCEPT !.passes[p].timers = @ + 1]
    ELSE IF m.passes[p].fence = "failed"
    THEN Throw(m, "Error")
    ELSE CheckSyncDone(m, p)

\* checkSync run by one of pass p's timers.
checkSync(m, p) ==
    CheckSyncStatus([m EXCEPT !.passes[p].timers = @ - 1, !.passes[p].polled = TRUE], p)

(***************************************************************************)
(* SplatTree.js.  The module holds one worker, shared by every SplatTree:  *)
(* splatTreeWorker.created says whether it exists, inbox holds the         *)
(* messages posted to it and not yet handled, outbox the messages it       *)
(* posted back and the main thread has not yet handled, and onmessage      *)
(* names the processSplatMesh call whose handler is installed on it (0:    *)
(* none).  A mesh is known to the tree by its mode, the splat counts of    *)
(* its scenes and its centers.                                             *)
(***************************************************************************)
\* Most processSplatMesh calls made in a run of the model.
MaxProcessCalls == 3

SplatTreeIds == {1, 2}

TreeMeshes == {1, 2}

\* Mesh 1 is dynamic and has two scenes, mesh 2 is static and has one; mesh
\* 3 is static and has the scenes of mesh 1.
TreeMeshDynamicMode(splatMesh) == splatMesh = 1

TreeMeshSplatCounts(splatMesh) == IF splatMesh = 2 THEN <<2>> ELSE <<1, 2>>

\* splatMesh.getSplatCenter(globalSplatIndex, center)
TreeMeshCenter(splatMesh, globalSplatIndex) ==
    <<10 * splatMesh + globalSplatIndex, splatMesh, 0>>

\* The constructor arguments of every tree of the model.
TreeMaxDepth == 8
TreeMaxCentersPerNode == 1000

NoWorker == [created |-> FALSE, inbox |-> <<>>, outbox |-> <<>>, onmessage |-> 0]

NewSplatTree == [splatMesh |-> 0, subTrees |-> <<>>]

NoSplatTrees ==
    /\ splatTreeWorker = NoWorker
    /\ splatTrees = [t \in SplatTreeIds |-> NewSplatTree]
    /\ processCalls = <<>>

InitMessage == [kind |-> "init", centers |-> <<>>, maxDepth |-> 0, maxCentersPerNode |-> 0]

checkAndCreateWorker(worker) ==
    IF worker.created THEN worker
    ELSE [worker EXCEPT !.created = TRUE, !.inbox = Append(@, InitMessage)]

workerProcessCenters(worker, centers, maxDepth, maxCentersPerNode) ==
    [worker EXCEPT !.inbox = Append(@, [kind |-> "process", centers |-> centers,
                                        maxDepth |-> maxDepth,
                                        maxCentersPerNode |-> maxCentersPerNode])]

\* The filters processSplatMesh is called with: the default one, which
\* every splat passes, and one only the splats of odd global index pass.
TreeFilters == {"all", "odd"}

filterFunc(filter, globalSplatIndex) ==
    filter = "all" \/ globalSplatIndex % 2 = 1

\* The global indexes i + splatOffset, i < count, in order.
GlobalSplatIndexes(splatOffset, count) == [i \in 1..count |-> i - 1 + splatOffset]

\* addCentersForScene: x, y, z and the global index of every splat of the
\* range that passes the filter.
addCentersForScene(splatMesh, filter, splatOffset, count) ==
    LET passing == SelectSeq(GlobalSplatIndexes(splatOffset, count),
                             LAMBDA g : filterFunc(filter, g))
    IN  [i \in 1..Len(passing) |->
            Append(TreeMeshCenter(splatMesh, passing[i]), passing[i])]

\* allCenters as the promise's executor collects it: in dynamic mode one
\* list per scene, in static mode the list of scene 0.
allCenters(splatMesh, filter) ==
    IF TreeMeshDynamicMode(splatMesh)
    THEN [s \in 1..Len(TreeMeshSplatCounts(splatMesh)) |->
            addCentersForScene(splatMesh, filter,
                SumSeq(SubSeq(TreeMeshSplatCounts(splatMesh), 1, s - 1)),
                TreeMeshSplatCounts(splatMesh)[s])]
    ELSE <<addCentersForScene(splatMesh, filter, 0,
                              TreeMeshSplatCounts(splatMesh)[1])>>

AllCenters(splatMesh) == allCenters(splatMesh, "all")

\* The least and the greatest coordinate of the centers along one axis, 0
\* for no centers.
SceneMin(sceneCenters, axis) ==
    IF sceneCenters = <<>> THEN 0
    ELSE CHOOSE v \in {sceneCenters[i][axis] : i \in 1..Len(sceneCenters)} :
            \A i \in 1..Len(sceneCenters) : v <= sceneCenters[i][axis]

SceneMax(sceneCenters, axis) ==
    IF sceneCenters = <<>> THEN 0
    ELSE CHOOSE v \in {sceneCenters[i][axis] : i \in 1..Len(sceneCenters)} :
            \A i \in 1..Len(sceneCenters) : v >= sceneCenters[i][axis]

\* buildSubTree: the subtree of a scene before its root is processed.
\* indexes is rootNode.data.indexes, the indexes of the scene, each once.
buildSubTree(sceneCenters, maxDepth, maxCentersPerNode) ==
    [maxDepth |-> maxDepth, maxCentersPerNode |-> maxCentersPerNode,
     sceneMin |-> [axis \in 1..3 |-> SceneMin(sceneCenters, axis)],
     sceneMax |-> [axis \in 1..3 |-> SceneMax(sceneCenters, axis)],
     indexes |-> [i \in 1..Len(sceneCenters) |-> sceneCenters[i][4]],
     addedIndexes |-> {},
     nodesWithIndexes |-> <<>>,
     splatMesh |-> 0]

\* A node of the worker.  The bounds of a node of depth d are kept in units
\* of 2^-d, so that the halving of the dimensions is exact, as it is in
\* binary floating point.
WorkerSplatTreeNode(min, max, depth, indexes) ==
    [min |-> min, max |-> max, depth |-> depth, indexes |-> indexes]

\* childrenBounds: for each of the eight children and each axis, whether
\* the child is the lower half [nodeCenter - halfDimensions, nodeCenter]
\* (0) or the upper half [nodeCenter, nodeCenter + halfDimensions] (1).
childrenBounds ==
    << <<0, 1, 0>>, <<1, 1, 0>>, <<1, 1, 1>>, <<0, 1, 1>>,
       <<0, 0, 0>>, <<1, 0, 0>>, <<1, 0, 1>>, <<0, 0, 1>> >>

\* The bounds of child j of a node, in units of 2^-(depth + 1): with
\* nodeCenter = (min + max) / 2, the lower half is [2 min, min + max] and
\* the upper half [min + max, 2 max] in these units.
ChildMin(node, j) ==
    [axis \in 1..3 |-> IF childrenBounds[j][axis] = 0 THEN 2 * node.min[axis]
                       ELSE node.min[axis] + node.max[axis]]

ChildMax(node, j) ==
    [axis \in 1..3 |-> IF childrenBounds[j][axis] = 0
                       THEN node.min[axis] + node.max[axis]
                       ELSE 2 * node.max[axis]]

\* WorkerBox3.containsPoint for a box of a node of the given depth: the
\* bounds are inclusive on both sides.
containsPoint(min, max, depth, center) ==
    \A axis \in 1..3 :
        /\ center[axis] * Pow2(depth) >= min[axis]
        /\ center[axis] * Pow2(depth) <= max[axis]

\* The child nodes of a node: child j gets baseIndexes[j], the indexes of
\* the node whose center its box contains, in the order of the node.
ChildNodes(node, indexToCenter) ==
    [j \in 1..8 |->
        WorkerSplatTreeNode(ChildMin(node, j), ChildMax(node, j), node.depth + 1,
            SelectSeq(node.indexes,
                LAMBDA g : containsPoint(ChildMin(node, j), ChildMax(node, j),
                                         node.depth + 1, indexToCenter[g])))]

\* A leaf keeps the indexes no leaf of the subtree has yet.
NewIndexes(tree, node) ==
    SelectSeq(node.indexes, LAMBDA g : g \notin tree.addedIndexes)

RECURSIVE processSplatTreeNode(_, _, _)
RECURSIVE ProcessChildren(_, _, _, _)

\* processSplatTreeNode: the subtree once the node and its descendants are
\* processed.
processSplatTreeNode(tree, node, indexToCenter) ==
    IF Len(node.indexes) < tree.maxCentersPerNode \/ node.depth > tree.maxDepth
    THEN [tree EXCEPT
            !.addedIndexes = @ \cup {node.indexes[i] : i \in 1..Len(node.indexes)},
            !.nodesWithIndexes =
                Append(@, [node EXCEPT !.indexes = NewIndexes(tree, node)])]
    ELSE ProcessChildren(tree, ChildNodes(node, indexToCenter), 1, indexToCenter)

\* The loop over node.children, from child j on.
ProcessChildren(tree, children, j, indexToCenter) ==
    IF j > Len(children) THEN tree
    ELSE ProcessChildren(processSplatTreeNode(tree, children[j], indexToCenter),
                         children, j + 1, indexToCenter)

\* indexToCenter of createSplatTree: the center of every index of every
\* list.
IndexToCenter(allCenters_) ==
    LET centers == UNION {{allCenters_[s][i] : i \in 1..Len(allCenters_[s])} :
                             s \in 1..Len(allCenters_)}
    IN  [g \in {center[4] : center \in centers} |->
            CHOOSE center \in centers : center[4] = g]

\* createSplatTree in the worker: the subtrees of a process message, each
\* built and its root processed.  The root's own index list is emptied
\* when the root is divided, and is the list of its new indexes otherwise.
createSplatTree(allCenters_, maxDepth, maxCentersPerNode) ==
    [s \in 1..Len(allCenters_) |->
        LET subTree == buildSubTree(allCenters_[s], maxDepth, maxCentersPerNode)
            rootNode == WorkerSplatTreeNode(subTree.sceneMin, subTree.sceneMax, 0,
                                            subTree.indexes)
            processed == processSplatTreeNode(subTree, rootNode,
                                              IndexToCenter(allCenters_))
        IN  [processed EXCEPT
                !.indexes = IF Len(subTree.indexes) < maxCentersPerNode \/ 0 > maxDepth
                            THEN subTree.indexes ELSE <<>>]]

\* The worker's self.onmessage on the oldest message of its inbox.
WorkerHandled(worker) ==
    IF Head(worker.inbox).kind = "process"
    THEN [worker EXCEPT
            !.inbox = Tail(@),
            !.outbox = Append(@, createSplatTree(Head(worker.inbox).centers,
                                                 Head(worker.inbox).maxDepth,
                                                 Head(worker.inbox).maxCentersPerNode))]
    ELSE [worker EXCEPT !.inbox = Tail(@)]

convertWorkerSubTree(workerSubTree, splatMesh) ==
    [workerSubTree EXCEPT !.splatMesh = splatMesh]

\* The handler processSplatMesh installs: the subtrees of the message are
\* pushed to the tree of the call that installed the handler.
ConvertedSubTrees(subTrees, splatMesh) ==
    [s \in 1..Len(subTrees) |-> convertWorkerSubTree(subTrees[s], splatMesh)]

\* tree.processSplatMesh(splatMesh): the worker is created if there is
\* none, the tree is reset, the handler of this call replaces the one
\* installed and the centers are posted.
\* The call is recorded with its filter and with the maxDepth and
\* maxCentersPerNode the tree was constructed with.
ProcessSplatMeshOf(tree, maxDepth, maxCentersPerNode, splatMesh, filter) ==
    /\ Len(processCalls) < MaxProcessCalls
    /\ splatTrees' = [splatTrees EXCEPT ![tree] = [splatMesh |-> splatMesh,
                                                   subTrees |-> <<>>]]
    /\ processCalls' = Append(processCalls, [tree |-> tree, splatMesh |-> splatMesh,
                                             filter |-> filter,
                                             maxDepth |-> maxDepth,
                                             maxCentersPerNode |-> maxCentersPerNode,
                                             promise |-> "pending"])
    /\ splatTreeWorker' =
          workerProcessCenters(
              [checkAndCreateWorker(splatTreeWorker) EXCEPT
                  !.onmessage = Len(processCalls) + 1],
              allCenters(splatMesh, filter), maxDepth, maxCentersPerNode)
    /\ UNCHANGED <<MeshVars, pure, loader>>

\* processSplatMesh(splatMesh) on a tree of the default constructor
\* arguments, with the default filter.
ProcessSplatMesh(tree, splatMesh) ==
    ProcessSplatMeshOf(tree, TreeMaxDepth, TreeMaxCentersPerNode, splatMesh, "all")

\* The worker handles a message.
WorkerOnMessage ==
    /\ splatTreeWorker.inbox # <<>>
    /\ splatTreeWorker' = WorkerHandled(splatTreeWorker)
    /\ UNCHANGED <<MeshVars, pure, splatTrees, processCalls, loader>>

\* The main thread handles a message of the worker: splatTreeWorker.onmessage.
SplatTreeOnMessage ==
    /\ splatTreeWorker.outbox # <<>>
    /\ splatTreeWorker.onmessage # 0
    /\ splatTrees' =
          [splatTrees EXCEPT ![processCalls[splatTreeWorker.onmessage].tree].subTrees =
              @ \o ConvertedSubTrees(Head(splatTreeWorker.outbox),
                                     processCalls[splatTreeWorker.onmessage].splatMesh)]
    /\ processCalls' = [processCalls EXCEPT ![splatTreeWorker.onmessage].promise =
                           "resolved"]
    /\ splatTreeWorker' = [splatTreeWorker EXCEPT !.outbox = Tail(@)]
    /\ UNCHANGED <<MeshVars, pure, loader>>

(***************************************************************************)
(* The state machine.  Each action is one call on the mesh, or one step of *)
(* its environment: splats arriving in a streamed buffer, the renderer     *)
(* drawing a frame or changing the bindings, a fence changing its status.  *)
(* last records the call just made: its name, the error it threw, whether  *)
(* it took the incremental path and the arrays it returned; for build and  *)
(* setRenderer, data is the device's answer to the program's compilation   *)
(* and linking.                                                            *)
(***************************************************************************)
\* Most device objects (alive or leaked) the context holds at a time.
MaxGLObjects == 10

Renderers == {1, 2}

\* The lists build is called with, and the scene options: none, or a
\* position for the first scene.
BuildLists == {<<>>, <<1>>, <<3>>, <<2, 1>>}

SceneOptionLists == {<<>>, <<[NoOptions EXCEPT !.position = <<1, 0, 0>>]>>}

NoArrays == [covariances |-> <<>>, centers |-> <<>>, colors |-> <<>>]

\* The buffers the mesh holds a handle of.  The contents of any other buffer
\* can no longer be read or written through the mesh: the model keeps such a
\* buffer (it is alive, and leaked) and forgets its contents.
ReferencedBuffers(m) ==
    {m.distancesTransformFeedback.centersBuffer,
     m.distancesTransformFeedback.transformIndexesBuffer,
     m.distancesTransformFeedback.outDistancesBuffer}

ContextOf(m) ==
    [m.gl EXCEPT !.objects =
        [h \in 1..Len(@) |->
            IF h \in ReferencedBuffers(m) THEN @[h] ELSE [@[h] EXCEPT !.data = <<>>]]]

Commit(m, op, update, arrays, data) ==
    /\ Len(m.gl.objects) <= MaxGLObjects
    /\ cfg' = m.cfg
    /\ splatCount' = m.splatCount
    /\ renderer' = m.renderer
    /\ scenes' = m.scenes
    /\ globalSplatIndexToLocalSplatIndexMap' = m.globalSplatIndexToLocalSplatIndexMap
    /\ globalSplatIndexToSceneIndexMap' = m.globalSplatIndexToSceneIndexMap
    /\ lastBuildSplatCount' = m.lastBuildSplatCount
    /\ lastBuildScenes' = m.lastBuildScenes
    /\ lastBuildMaxSplatCount' = m.lastBuildMaxSplatCount
    /\ lastBuildSceneCount' = m.lastBuildSceneCount
    /\ geometry' = m.geometry
    /\ material' = m.material
    /\ splatDataTextures' = m.splatDataTextures
    /\ distancesTransformFeedback' = m.distancesTransformFeedback
    /\ currentRenderer' = m.currentRenderer
    /\ currentMaxSplatCount' = m.currentMaxSplatCount
    /\ gl' = ContextOf(m)
    /\ passes' = m.passes
    /\ last' = [op |-> op, err |-> m.err, update |-> update, arrays |-> arrays,
                data |-> data]
    /\ UNCHANGED <<pure, TreeVars, loader>>

\* A new mesh; splatBuffers gives the splats loaded in each buffer so far.
NewMeshOver(c, splatBuffers) ==
    /\ cfg = c
    /\ splatCount = splatBuffers
    /\ renderer = 0
    /\ scenes = <<>>
    /\ globalSplatIndexToLocalSplatIndexMap = <<>>
    /\ globalSplatIndexToSceneIndexMap = <<>>
    /\ lastBuildSplatCount = <<>>
    /\ lastBuildScenes = <<>>
    /\ lastBuildMaxSplatCount = 0
    /\ lastBuildSceneCount = 0
    /\ geometry = "dummy"
    /\ material = "dummy"
    /\ splatDataTextures = EmptySplatDataTextures
    /\ distancesTransformFeedback = NoDistancesTransformFeedback
    /\ currentRenderer = 0
    /\ currentMaxSplatCount = Undefined
    /\ gl = NoGLObjects
    /\ passes = <<>>
    /\ last = [op |-> "constructor", err |-> "none", update |-> FALSE,
               arrays |-> NoArrays, data |-> <<>>]

\* Buffer 1 is partly loaded, the others fully.
NewMesh(c) ==
    NewMeshOver(c, [b \in SplatBuffers |->
                       IF b = 1 THEN 1 ELSE SplatBuffer_getMaxSplatCount(b)])

NoPure == [in |-> <<>>, applied |-> FALSE, localSplatIndexMap |-> <<>>,
           sceneIndexMap |-> <<>>]

\* The device's answers that make a difference: compilation and linking are
\* reached only when the program is rebuilt.
OutcomesIf(rebuilds) == IF rebuilds THEN SetupOutcomes ELSE {"ok"}

Build(splatBuffers, sceneOptions, keepSceneTransforms, outcome) ==
    /\ outcome \in OutcomesIf(cfg.enableDistancesComputationOnGPU /\ renderer # 0
                                 /\ currentRenderer # renderer)
    /\ Commit(build(This, splatBuffers, sceneOptions, keepSceneTransforms, outcome),
              "build",
              IsUpdateBuild(
                  WithScenes(This, NewScenes(This, buildScenes(splatBuffers, sceneOptions),
                                             keepSceneTransforms)),
                  getTotalMaxSplatCountForSplatBuffers(splatBuffers)),
              NoArrays, <<outcome>>)

SetRenderer(r, outcome) ==
    /\ outcome \in OutcomesIf(cfg.enableDistancesComputationOnGPU /\ r # renderer
                                 /\ r # currentRenderer /\ getSplatCount(This) > 0)
    /\ Commit(setRenderer(This, r, outcome), "setRenderer", FALSE, NoArrays,
              <<outcome>>)

\* dispose: the call is recorded with the delete calls it made on the
\* device, and as "disposeAgain" when it follows a dispose directly.
Dispose ==
    Commit(dispose(This), IF last.op \in {"dispose", "disposeAgain"}
                          THEN "disposeAgain" ELSE "dispose",
           FALSE, NoArrays, dispose(This).deleted)

UploadSplatDataToTextures(sinceLastBuild) ==
    Commit(uploadSplatDataToTextures(This, sinceLastBuild),
           "uploadSplatDataToTextures", sinceLastBuild, NoArrays, <<>>)

\* getScene and getSceneTransform: data is the index asked for and what the
\* call returned, or what the caller's outTransform holds after the call.
GetScene(sceneIndex) ==
    Commit(Throw(This, getSceneOrThrow(This, sceneIndex).err), "getScene", FALSE,
           NoArrays, <<sceneIndex, getSceneOrThrow(This, sceneIndex).scene>>)

GetSceneTransform(sceneIndex, outTransform) ==
    Commit(Throw(This, getSceneTransform(This, sceneIndex, outTransform).err),
           "getSceneTransform", FALSE, NoArrays,
           <<sceneIndex, getSceneTransform(This, sceneIndex, outTransform).outTransform>>)

\* A call that returns arrays and leaves the mesh alone.
Return(op, sinceLastBuild, r, arrays, data) ==
    Commit(Throw(This, r.err), op, sinceLastBuild, arrays, data)

ReturnArrays(op, sinceLastBuild, r) ==
    Return(op, sinceLastBuild, r,
           [covariances |-> r.covariances, centers |-> r.centers, colors |-> r.colors],
           <<>>)

ReturnData(op, sinceLastBuild, r) == Return(op, sinceLastBuild, r, NoArrays, r.data)

\* The caller hands in three zeroed arrays sized for the mesh.
FillSplatDataArrays(sinceLastBuild) ==
    ReturnArrays("fillSplatDataArrays", sinceLastBuild,
        fillSplatDataArrays(This, Zeros(getMaxSplatCount(This) * 6),
                            Zeros(getMaxSplatCount(This) * 3),
                            Zeros(getMaxSplatCount(This) * 4),
                            "undefined", sinceLastBuild, FALSE))

\* A full fill with applySceneTransform given; data is that argument.
FillSplatDataArraysApplying(applySceneTransform) ==
    Return("fillSplatDataArrays", FALSE,
        fillSplatDataArrays(This, Zeros(getMaxSplatCount(This) * 6),
                            Zeros(getMaxSplatCount(This) * 3),
                            Zeros(getMaxSplatCount(This) * 4),
                            applySceneTransform, FALSE, FALSE),
        [covariances |->
            fillSplatDataArrays(This, Zeros(getMaxSplatCount(This) * 6),
                                Zeros(getMaxSplatCount(This) * 3),
                                Zeros(getMaxSplatCount(This) * 4),
                                applySceneTransform, FALSE, FALSE).covariances,
         centers |->
            fillSplatDataArrays(This, Zeros(getMaxSplatCount(This) * 6),
                                Zeros(getMaxSplatCount(This) * 3),
                                Zeros(getMaxSplatCount(This) * 4),
                                applySceneTransform, FALSE, FALSE).centers,
         colors |->
            fillSplatDataArrays(This, Zeros(getMaxSplatCount(This) * 6),
                                Zeros(getMaxSplatCount(This) * 3),
                                Zeros(getMaxSplatCount(This) * 4),
                                applySceneTransform, FALSE, FALSE).colors],
        <<applySceneTransform>>)

GetIntegerCenters(padFour, sinceLastBuild) ==
    ReturnData("getIntegerCenters", sinceLastBuild,
               getIntegerCenters(This, padFour, sinceLastBuild))

GetFloatCenters(padFour, sinceLastBuild) ==
    ReturnData("getFloatCenters", sinceLastBuild,
               getFloatCenters(This, padFour, sinceLastBuild))

UpdateGPUCentersBufferForDistancesComputation(sinceLastBuild) ==
    Commit(updateGPUCentersBufferForDistancesComputation(This, sinceLastBuild),
           "updateGPUCentersBufferForDistancesComputation", sinceLastBuild,
           NoArrays, <<>>)

ComputeDistancesOnGPU(modelViewProjMatrix) ==
    /\ Len(passes) < MaxPasses
    /\ Commit(computeDistancesOnGPU(This, modelViewProjMatrix),
              "computeDistancesOnGPU", FALSE, NoArrays, <<>>)

\* A timer of pass p fires.
CheckSync(p) ==
    /\ passes[p].timers > 0
    /\ Commit(checkSync(This, p), "checkSync", FALSE, NoArrays, <<p>>)

\* The environment.
LoadSplats(b) ==
    /\ splatCount[b] < SplatBuffer_getMaxSplatCount(b)
    /\ Commit([This EXCEPT !.splatCount[b] = @ + 1], "loadSplats", FALSE,
              NoArrays, <<>>)

\* The renderer draws: every texture that is flagged is uploaded.
UploadedTexture(desc) ==
    IF desc.texture = "live" /\ desc.needsUpdate
    THEN [desc EXCEPT !.uploaded = TRUE, !.needsUpdate = FALSE]
    ELSE desc

RenderFrame ==
    /\ renderer # 0
    /\ splatDataTextures.state = "built"
    /\ Commit([This EXCEPT
                 !.splatDataTextures.covariances = UploadedTexture(@),
                 !.splatDataTextures.centerColors = UploadedTexture(@),
                 !.splatDataTextures.tansformIndexes = UploadedTexture(@)],
              "renderFrame", FALSE, NoArrays, <<>>)

\* The renderer binds a program and vertex array of its own, or none.
RendererBinds(own) ==
    /\ renderer # 0
    /\ Commit([This EXCEPT !.gl.boundVao = IF own THEN ExternalObject ELSE 0,
                           !.gl.boundProgram = IF own THEN ExternalObject ELSE 0],
              "rendererBinds", FALSE, NoArrays, <<>>)

FenceSignals(p) ==
    /\ passes[p].fence = "unsignaled"
    /\ Commit([This EXCEPT !.passes[p].fence = "signaled"], "fence", FALSE,
              NoArrays, <<p>>)

FenceFails(p) ==
    /\ passes[p].fence = "unsignaled"
    /\ Commit([This EXCEPT !.passes[p].fence = "failed"], "fence", FALSE,
              NoArrays, <<p>>)

(***************************************************************************)
(* The specifications.  Each one starts from a constructed mesh and offers *)
(* the calls its properties are about.                                     *)
(***************************************************************************)
\* The options the constructor defaults to, but for the two the properties
\* depend on.
Configuration(dynamicMode, integerBasedDistancesComputation) ==
    [dynamicMode |-> dynamicMode, halfPrecisionCovariancesOnGPU |-> FALSE,
     enableDistancesComputationOnGPU |-> TRUE,
     integerBasedDistancesComputation |-> integerBasedDistancesComputation]

(***************************************************************************)
(* SpecMaps: buildSplatIndexMaps applied to every list of max splat counts *)
(* of up to MaxListLen buffers, and to the list of the 500/300 scenario.   *)
(***************************************************************************)
MaxSplatCountLists ==
    UNION {[1..n -> 0..MaxListCount] : n \in 0..MaxListLen} \cup {<<500, 300>>}

InitMaps ==
    /\ NewMesh(Configuration(TRUE, FALSE))
    /\ \E maxSplatCounts \in MaxSplatCountLists :
          pure = [NoPure EXCEPT !.in = maxSplatCounts]
    /\ NoSplatTrees
    /\ loader = NoLoader

BuildSplatIndexMaps ==
    /\ ~pure.applied
    /\ pure' = [in |-> pure.in, applied |-> TRUE,
                localSplatIndexMap |-> buildSplatIndexMaps(pure.in).localSplatIndexMap,
                sceneIndexMap |-> buildSplatIndexMaps(pure.in).sceneIndexMap]
    /\ UNCHANGED <<MeshVars, TreeVars, loader>>

NextMaps == BuildSplatIndexMaps

SpecMaps == InitMaps /\ [][NextMaps]_vars

(***************************************************************************)
(* Spec: builds over one, two or no splat buffers, with the renderer set   *)
(* at any point, splats arriving in the buffers, and a program that may    *)
(* fail to link.                                                           *)
(***************************************************************************)
Init ==
    /\ \E dynamicMode \in BOOLEAN, integerBasedDistancesComputation \in BOOLEAN :
          NewMesh(Configuration(dynamicMode, integerBasedDistancesComputation))
    /\ pure = NoPure
    /\ NoSplatTrees
    /\ loader = NoLoader

\* With keepSceneTransforms and a scene to keep the transform of, the
\* position given for that scene is overwritten: one such call stands for
\* all of them.
Next ==
    \/ \E splatBuffers \in BuildLists, sceneOptions \in SceneOptionLists,
          keepSceneTransforms \in BOOLEAN, outcome \in {"ok", "link"} :
          /\ (keepSceneTransforms /\ scenes # <<>>) => sceneOptions = <<>>
          /\ Build(splatBuffers, sceneOptions, keepSceneTransforms, outcome)
    \/ \E outcome \in {"ok", "link"} : SetRenderer(1, outcome)
    \/ \E b \in SplatBuffers : LoadSplats(b)

Spec == Init /\ [][Next]_vars

(***************************************************************************)
(* C1.  For every list of max splat counts, buildSplatIndexMaps returns    *)
(* two arrays as long as the sum of the counts; scene index s occurs       *)
(* exactly maxSplatCounts[s] times, and the local indexes recorded for     *)
(* scene s are exactly 0 .. maxSplatCounts[s] - 1, each exactly once.      *)
(***************************************************************************)
SlotsOfScene(s) ==
    {g \in 1..Len(pure.sceneIndexMap) : pure.sceneIndexMap[g] = s}

C1_IndexMapsCountEveryScene ==
    pure.applied =>
        /\ Len(pure.localSplatIndexMap) = SumSeq(pure.in)
        /\ Len(pure.sceneIndexMap) = SumSeq(pure.in)
        /\ \A g \in 1..Len(pure.sceneIndexMap) :
              pure.sceneIndexMap[g] \in 0..(Len(pure.in) - 1)
        /\ \A s \in 0..(Len(pure.in) - 1) :
              /\ Cardinality(SlotsOfScene(s)) = pure.in[s + 1]
              /\ {pure.localSplatIndexMap[g] : g \in SlotsOfScene(s)}
                    = 0..(pure.in[s + 1] - 1)

\* Three buffers, the middle one empty, are mapped.
C1_Witness ==
    /\ pure.applied
    /\ Len(pure.in) = 3
    /\ pure.in[1] > 1 /\ pure.in[2] = 0 /\ pure.in[3] > 1
    /\ Len(pure.sceneIndexMap) = pure.in[1] + pure.in[3]

(***************************************************************************)
(* C2.  After a build that returns, the scenes occupy contiguous ranges of *)
(* global indexes in the order of the scenes list: every global index g    *)
(* below the total max splat count lies in the range of one scene s,       *)
(* getSceneIndexForSplat(g) is s and getSplatLocalIndex(g) is g less the   *)
(* max splat counts of the scenes before s.  With max counts 500 and 300,  *)
(* index 650 is local index 150 of scene 1.                                *)
(***************************************************************************)
\* The first global index of scene s: the max splat counts before it.
RangeStart(s) == getTotalMaxSplatCountForScenes(SubSeq(scenes, 1, s))

InRangeOfScene(g, s) == RangeStart(s) <= g /\ g < RangeStart(s + 1)

WithIndexMaps(indexMaps) ==
    [This EXCEPT !.globalSplatIndexToLocalSplatIndexMap = indexMaps.localSplatIndexMap,
                 !.globalSplatIndexToSceneIndexMap = indexMaps.sceneIndexMap]

C2_ScenesOccupyContiguousRanges ==
    /\ (last.op = "build" /\ last.err = "none") =>
          \A g \in 0..(getMaxSplatCount(This) - 1) :
             /\ g < Len(globalSplatIndexToSceneIndexMap)
             /\ g < Len(globalSplatIndexToLocalSplatIndexMap)
             /\ \E s \in 0..(Len(scenes) - 1) :
                   /\ InRangeOfScene(g, s)
                   /\ getSceneIndexForSplat(This, g) = s
                   /\ getSplatLocalIndex(This, g) = g - RangeStart(s)
    /\ getSceneIndexForSplat(WithIndexMaps(buildSplatIndexMaps(<<500, 300>>)), 650) = 1
    /\ getSplatLocalIndex(WithIndexMaps(buildSplatIndexMaps(<<500, 300>>)), 650) = 150

\* A build of two scenes, the longer one second, has returned.
C2_Witness ==
    /\ last.op = "build" /\ last.err = "none"
    /\ Len(scenes) = 2
    /\ scenes[1].splatBuffer = 2 /\ scenes[2].splatBuffer = 1
    /\ getSceneIndexForSplat(This, 2) = 1
    /\ getSplatLocalIndex(This, 2) = 1

(***************************************************************************)
(* C5.  A build that is aborted by an error leaves the mesh as it was      *)
(* before the call: the scenes list, the two global index maps, the        *)
(* last-build bookkeeping and the packed data are unchanged by the step.   *)
(***************************************************************************)
C5_AbortedBuildLeavesStateUntouched ==
    [][(last'.op = "build" /\ last'.err # "none") =>
          /\ scenes' = scenes
          /\ globalSplatIndexToLocalSplatIndexMap' = globalSplatIndexToLocalSplatIndexMap
          /\ globalSplatIndexToSceneIndexMap' = globalSplatIndexToSceneIndexMap
          /\ lastBuildSplatCount' = lastBuildSplatCount
          /\ lastBuildScenes' = lastBuildScenes
          /\ lastBuildMaxSplatCount' = lastBuildMaxSplatCount
          /\ lastBuildSceneCount' = lastBuildSceneCount
          /\ splatDataTextures' = splatDataTextures]_vars

(***************************************************************************)
(* C6.  After every build that returns, the two global index maps are      *)
(* exactly the maps buildSplatIndexMaps produces for the splat buffers of  *)
(* the current scenes list.                                                *)
(***************************************************************************)
IndexMapsOfScenes ==
    buildSplatIndexMaps([i \in 1..Len(scenes) |->
                            SplatBuffer_getMaxSplatCount(scenes[i].splatBuffer)])

C6_IndexMapsMatchScenesAfterBuild ==
    (last.op = "build" /\ last.err = "none") =>
        /\ Len(globalSplatIndexToLocalSplatIndexMap) = Len(globalSplatIndexToSceneIndexMap)
        /\ globalSplatIndexToLocalSplatIndexMap = IndexMapsOfScenes.localSplatIndexMap
        /\ globalSplatIndexToSceneIndexMap = IndexMapsOfScenes.sceneIndexMap

(***************************************************************************)
(* SpecUpdate: full and update builds of one scene while its splat buffer  *)
(* fills, in static and dynamic mode, with covariances of either           *)
(* precision, the renderer set at any point and frames drawn in between.   *)
(***************************************************************************)
InitUpdate ==
    /\ \E dynamicMode \in BOOLEAN, halfPrecisionCovariancesOnGPU \in BOOLEAN :
          NewMesh([dynamicMode |-> dynamicMode,
                   halfPrecisionCovariancesOnGPU |-> halfPrecisionCovariancesOnGPU,
                   enableDistancesComputationOnGPU |-> FALSE,
                   integerBasedDistancesComputation |-> FALSE])
    /\ pure = NoPure
    /\ NoSplatTrees
    /\ loader = NoLoader

NextUpdate ==
    \/ \E splatBuffers \in {<<1>>, <<3>>}, sceneOptions \in SceneOptionLists,
          keepSceneTransforms \in BOOLEAN :
          /\ (keepSceneTransforms /\ scenes # <<>>) => sceneOptions = <<>>
          /\ Build(splatBuffers, sceneOptions, keepSceneTransforms, "ok")
    \/ SetRenderer(1, "ok")
    \/ \E b \in SplatBuffers : LoadSplats(b)
    \/ RenderFrame

SpecUpdate == InitUpdate /\ [][NextUpdate]_vars

(***************************************************************************)
(* C3.  With one scene, an update build that returns (same splat buffer,   *)
(* same max splat count, splat count no smaller than at the full build     *)
(* before it) leaves the packed covariances, the packed centers and colors *)
(* and, in dynamic mode, the packed transform indexes equal, element for   *)
(* element, to the arrays of one full build at the present splat count.    *)
(***************************************************************************)
PackedArrays(textures) ==
    [covariances |-> textures.covariances.data,
     centerColors |-> textures.centerColors.data,
     transformIndexes |-> IF cfg.dynamicMode THEN textures.tansformIndexes.data
                          ELSE <<>>]

C3_UpdateBuildPacksAsFullBuild ==
    (last.op = "build" /\ last.err = "none" /\ last.update /\ Len(scenes) = 1) =>
        PackedArrays(splatDataTextures) = PackedArrays(UploadFull(This).splatDataTextures)

(***************************************************************************)
(* SpecCalls: the operations that take sinceLastBuild, called directly on  *)
(* a mesh built over one scene or two, with and without a renderer.        *)
(***************************************************************************)
NextCalls ==
    \/ \E splatBuffers \in {<<1>>, <<1, 2>>} : Build(splatBuffers, <<>>, TRUE, "ok")
    \/ SetRenderer(1, "ok")
    \/ \E b \in SplatBuffers : LoadSplats(b)
    \/ \E sinceLastBuild \in BOOLEAN : UploadSplatDataToTextures(sinceLastBuild)
    \/ \E sinceLastBuild \in BOOLEAN : FillSplatDataArrays(sinceLastBuild)
    \/ \E padFour \in BOOLEAN, sinceLastBuild \in BOOLEAN :
          GetIntegerCenters(padFour, sinceLastBuild)
    \/ \E padFour \in BOOLEAN, sinceLastBuild \in BOOLEAN :
          GetFloatCenters(padFour, sinceLastBuild)
    \/ \E sinceLastBuild \in BOOLEAN :
          UpdateGPUCentersBufferForDistancesComputation(sinceLastBuild)

SpecCalls == Init /\ [][NextCalls]_vars

(***************************************************************************)
(* C4.  On a mesh with more than one scene, each of                        *)
(* uploadSplatDataToTextures, fillSplatDataArrays, getIntegerCenters,      *)
(* getFloatCenters and updateGPUCentersBufferForDistancesComputation,      *)
(* called with sinceLastBuild true, throws the multi-scene error and       *)
(* writes nothing: the textures and their packed arrays, the device        *)
(* buffers and the arrays of the caller are as before the call.            *)
(***************************************************************************)
IncrementalOperations ==
    {"uploadSplatDataToTextures", "fillSplatDataArrays", "getIntegerCenters",
     "getFloatCenters", "updateGPUCentersBufferForDistancesComputation"}

\* The arrays of the caller as handed in, and no array returned.
NothingWritten(op, arrays, data) ==
    /\ data = <<>>
    /\ arrays = IF op = "fillSplatDataArrays"
                THEN [covariances |-> Zeros(getMaxSplatCount(This) * 6),
                      centers |-> Zeros(getMaxSplatCount(This) * 3),
                      colors |-> Zeros(getMaxSplatCount(This) * 4)]
                ELSE NoArrays

C4_IncrementalOperationsRefuseManyScenes ==
    [][(Len(scenes) > 1 /\ last'.op \in IncrementalOperations /\ last'.update) =>
          /\ last'.err = "MultiSceneUpdate"
          /\ splatDataTextures' = splatDataTextures
          /\ gl' = gl
          /\ distancesTransformFeedback' = distancesTransformFeedback
          /\ scenes' = scenes
          /\ NothingWritten(last'.op, last'.arrays, last'.data)]_vars

\* An incremental refresh of the centers buffer is refused on a mesh of two
\* scenes that has a renderer, textures and device buffers.
C4_Witness ==
    /\ last.op = "updateGPUCentersBufferForDistancesComputation"
    /\ last.update
    /\ last.err = "MultiSceneUpdate"
    /\ Len(scenes) = 2
    /\ renderer # 0
    /\ splatDataTextures.state = "built"
    /\ distancesTransformFeedback.centersBuffer # 0

(***************************************************************************)
(* SpecSetup: the device objects of the distance computation as the mesh   *)
(* is built over one scene or two (the total max splat count changes) and  *)
(* either of two renderers is set, with a program that may fail to         *)
(* compile or link.                                                        *)
(***************************************************************************)
InitSetup ==
    /\ \E dynamicMode \in BOOLEAN : NewMesh(Configuration(dynamicMode, TRUE))
    /\ pure = NoPure
    /\ NoSplatTrees
    /\ loader = NoLoader

NextSetup ==
    \/ \E splatBuffers \in {<<1>>, <<1, 2>>}, outcome \in SetupOutcomes :
          Build(splatBuffers, <<>>, TRUE, outcome)
    \/ \E r \in Renderers, outcome \in SetupOutcomes : SetRenderer(r, outcome)
    \/ \E own \in BOOLEAN : RendererBinds(own)

SpecSetup == InitSetup /\ [][NextSetup]_vars

(***************************************************************************)
(* SpecCompute: passes of the distance computation on a mesh of one scene  *)
(* with a renderer.  Passes are issued and their timers run, fences are    *)
(* signaled or fail, and the renderer changes the bindings in between.     *)
(***************************************************************************)
NextCompute ==
    \/ Build(<<1>>, <<>>, TRUE, "ok")
    \/ SetRenderer(1, "ok")
    \/ ComputeDistancesOnGPU(<<0, 0, 1>>)
    \/ \E p \in 1..Len(passes) : CheckSync(p)
    \/ \E p \in 1..Len(passes) : FenceSignals(p)
    \/ \E p \in 1..Len(passes) : FenceFails(p)
    \/ \E own \in BOOLEAN : RendererBinds(own)

SpecCompute == InitSetup /\ [][NextCompute]_vars

(***************************************************************************)
(* C7.  A setup that replaces the buffers (the renderer or the total max   *)
(* splat count differs from the last completed setup) disposes of the      *)
(* buffers it replaces: every buffer alive on the device is one the mesh   *)
(* holds.                                                                  *)
(***************************************************************************)
LiveBuffers == {h \in LiveObjects(gl) : gl.objects[h].kind = "buffer"}

C7_SetupDisposesBuffersItReplaces ==
    LiveBuffers \subseteq ReferencedBuffers(This)

(***************************************************************************)
(* C8.  The promise of a pass settles once its fence has reached a final   *)
(* status: as long as the promise is pending, a poll of the fence is       *)
(* scheduled.                                                              *)
(***************************************************************************)
C8_PendingPromiseIsPolled ==
    \A p \in 1..Len(passes) :
        passes[p].promise = "pending" => passes[p].timers > 0

(***************************************************************************)
(* C9.  computeDistancesOnGPU, and the completion callback of a pass,      *)
(* leave the current program and the vertex array binding as they were     *)
(* before, whatever was bound, nothing included.                           *)
(***************************************************************************)
C9_ComputeRestoresBindings ==
    [][last'.op \in {"computeDistancesOnGPU", "checkSync"} =>
          /\ gl'.boundProgram = gl.boundProgram
          /\ gl'.boundVao = gl.boundVao]_vars

(***************************************************************************)
(* C10.  At most one distance computation is in flight: no pass is issued  *)
(* while the promise of an earlier pass is unresolved.                     *)
(***************************************************************************)
C10_AtMostOnePassInFlight ==
    Cardinality(UnresolvedPasses(passes)) <= 1

(***************************************************************************)
(* C10 as it holds of the code.  computeDistancesOnGPU issues a pass       *)
(* whenever it is called; it is the caller that must wait.  A pass is in   *)
(* flight while a poll of it is scheduled or its fence exists.  Two passes *)
(* are in flight together only if the later one was issued while the       *)
(* promise of an earlier pass was unresolved: a pass whose promise is      *)
(* resolved polls no more and has deleted its fence.                       *)
(***************************************************************************)
InFlight(p) == passes[p].timers > 0 \/ passes[p].syncLive

C10_PassesOverlapOnlyIfIssuedOverlapping ==
    \A p \in 1..Len(passes), q \in 1..Len(passes) :
        (p < q /\ InFlight(p) /\ InFlight(q)) => passes[q].overlapped

\* A second pass, issued once the promise of the first was resolved, is in
\* flight.
C10_Witness ==
    /\ Len(passes) = 2
    /\ passes[1].promise = "resolved"
    /\ ~passes[2].overlapped
    /\ InFlight(2)
    /\ passes[2].polled

(***************************************************************************)
(* SpecReadback: passes of the distance computation while the mesh is      *)
(* rebuilt over one scene or two (the distance buffers are reallocated     *)
(* when the total max splat count changes) and the renderer is replaced.   *)
(* The mesh is dynamic and computes integer distances.                     *)
(***************************************************************************)
ViewProjections == {<<0, 0, 1>>, <<1, 0, 2>>}

NextReadback ==
    \/ \E splatBuffers \in {<<1>>, <<2, 1>>} : Build(splatBuffers, <<>>, TRUE, "ok")
    \/ \E r \in Renderers : SetRenderer(r, "ok")
    \/ \E modelViewProjMatrix \in ViewProjections :
          ComputeDistancesOnGPU(modelViewProjMatrix)
    \/ \E p \in 1..Len(passes) : CheckSync(p)
    \/ \E p \in 1..Len(passes) : FenceSignals(p)

InitReadback ==
    /\ NewMesh(Configuration(TRUE, TRUE))
    /\ pure = NoPure
    /\ NoSplatTrees
    /\ loader = NoLoader

SpecReadback == InitReadback /\ [][NextReadback]_vars

(***************************************************************************)
(* C11.  When the promise of a pass resolves, the distances copied into    *)
(* the caller's array are the ones the draw of that pass wrote, under its  *)
(* own view-projection, whatever builds and setRenderer calls ran between  *)
(* the issue of the pass and the signaling of its fence.  Passes that      *)
(* overlap another pass are left out: the property is about builds and     *)
(* renderer changes only.                                                  *)
(***************************************************************************)
PassAlone(p) ==
    /\ ~passes[p].overlapped
    /\ \A q \in (p + 1)..Len(passes) : ~passes[q].overlapped

C11_ReadbackIsOwnPass ==
    \A p \in 1..Len(passes) :
        (passes[p].promise = "resolved" /\ PassAlone(p)) =>
            /\ Len(passes[p].outComputedDistances) >= Len(passes[p].distances)
            /\ SubSeq(passes[p].outComputedDistances, 1, Len(passes[p].distances))
                  = passes[p].distances

(***************************************************************************)
(* SpecTrees: two SplatTree instances process two meshes through the       *)
(* module's worker; the calls, the worker's handling of its messages and   *)
(* the main thread's handling of the replies interleave freely.            *)
(***************************************************************************)
InitTrees ==
    /\ NewMesh(Configuration(FALSE, TRUE))
    /\ pure = NoPure
    /\ NoSplatTrees
    /\ loader = NoLoader

NextTrees ==
    \/ \E tree \in SplatTreeIds, splatMesh \in TreeMeshes :
          ProcessSplatMesh(tree, splatMesh)
    \/ WorkerOnMessage
    \/ SplatTreeOnMessage

SpecTrees == InitTrees /\ [][NextTrees]_vars

(***************************************************************************)
(* C12.  Pipeline instances are independent: when processSplatMesh has     *)
(* been called on different trees for different meshes, overlapping or     *)
(* not, then once every                                                    *)
(* message is handled each call's promise is resolved and each tree holds  *)
(* exactly the subtrees built from the centers of its own mesh, each once. *)
(***************************************************************************)
CallsOnDifferentTrees ==
    \A c \in 1..Len(processCalls), d \in 1..Len(processCalls) :
        c # d => /\ processCalls[c].tree # processCalls[d].tree
                 /\ processCalls[c].splatMesh # processCalls[d].splatMesh

SubTreesOf(splatMesh) ==
    ConvertedSubTrees(createSplatTree(AllCenters(splatMesh), TreeMaxDepth,
                                      TreeMaxCentersPerNode),
                      splatMesh)

C12_TreesAreIndependent ==
    (/\ CallsOnDifferentTrees
     /\ splatTreeWorker.inbox = <<>>
     /\ splatTreeWorker.outbox = <<>>) =>
        \A c \in 1..Len(processCalls) :
            /\ processCalls[c].promise = "resolved"
            /\ splatTrees[processCalls[c].tree].subTrees
                  = SubTreesOf(processCalls[c].splatMesh)

(***************************************************************************)
(* SpecDispose: a mesh is built over one scene or two, given a renderer    *)
(* and disposed of, any number of times and in any order.                  *)
(***************************************************************************)
NextDispose ==
    \/ \E splatBuffers \in {<<1>>, <<1, 2>>} : Build(splatBuffers, <<>>, TRUE, "ok")
    \/ \E r \in Renderers : SetRenderer(r, "ok")
    \/ Dispose

SpecDispose == InitSetup /\ [][NextDispose]_vars

(***************************************************************************)
(* C13.  After dispose() on a mesh with a renderer set, every device       *)
(* object the mesh created (vertex array, program, shaders, buffers,       *)
(* transform feedback object, data textures) has been deleted and every    *)
(* field that referenced one is null.                                      *)
(***************************************************************************)
LiveTextures ==
    {key \in {"covariances", "centerColors", "tansformIndexes"} :
        splatDataTextures[key].texture = "live"}

C13_DisposeReleasesEveryDeviceObject ==
    (last.op \in {"dispose", "disposeAgain"} /\ renderer # 0) =>
        /\ LiveObjects(gl) = {}
        /\ LiveTextures = {}
        /\ distancesTransformFeedback = NoDistancesTransformFeedback
        /\ splatDataTextures.state = "null"

(***************************************************************************)
(* C14.  dispose() is idempotent: a dispose of a mesh that is already      *)
(* disposed of throws no error, changes nothing of the mesh and makes no   *)
(* delete call on the device for an object that is deleted already; a      *)
(* dispose of any mesh, built or not, throws no error and deletes no       *)
(* object twice.                                                           *)
(***************************************************************************)
C14_DisposeIsIdempotent ==
    [][/\ last'.op \in {"dispose", "disposeAgain"} =>
             /\ last'.err = "none"
             /\ \A i \in 1..Len(last'.data) :
                   last'.data[i] # 0 =>
                      /\ IsLive(gl, last'.data[i])
                      /\ \A j \in 1..Len(last'.data) :
                            last'.data[j] = last'.data[i] => j = i
       /\ last'.op = "disposeAgain" =>
             /\ geometry' = geometry
             /\ material' = material
             /\ splatDataTextures' = splatDataTextures
             /\ distancesTransformFeedback' = distancesTransformFeedback
             /\ gl' = gl
             /\ scenes' = scenes
             /\ renderer' = renderer
             /\ currentRenderer' = currentRenderer
             /\ currentMaxSplatCount' = currentMaxSplatCount
             /\ \A i \in 1..Len(last'.data) : last'.data[i] = 0]_vars

\* A mesh whose device objects were set up has been disposed of twice in a
\* row.
C14_Witness ==
    /\ last.op = "disposeAgain"
    /\ renderer # 0
    /\ currentRenderer = renderer
    /\ geometry = "null"
    /\ splatDataTextures.state = "null"

(***************************************************************************)
(* SpecFailures: the distance computation is set up, by build and by       *)
(* setRenderer with either of two renderers, on a device whose compiler    *)
(* or linker may fail.                                                     *)
(***************************************************************************)
NextFailures ==
    \/ \E splatBuffers \in {<<1>>, <<2, 1>>}, outcome \in SetupOutcomes :
          Build(splatBuffers, <<>>, TRUE, outcome)
    \/ \E r \in Renderers, outcome \in SetupOutcomes : SetRenderer(r, outcome)

SpecFailures == InitSetup /\ [][NextFailures]_vars

(***************************************************************************)
(* C15.  If compiling either shader or linking the program fails during    *)
(* setupDistancesComputationTransformFeedback, the call throws an error,   *)
(* no program handle is stored in distancesTransformFeedback and the       *)
(* renderer and max splat count are not recorded as set up: the next       *)
(* setup finds the renderer changed and starts over.                       *)
(***************************************************************************)
C15_FailedSetupStoresNothing ==
    [][(last'.op \in {"build", "setRenderer"} /\ last'.data # <<"ok">>) =>
          /\ last'.err = IF last'.data = <<"link">> THEN "LinkError"
                         ELSE "CompileError"
          /\ distancesTransformFeedback'.program = 0
          /\ distancesTransformFeedback'.vertexShader = 0
          /\ currentRenderer' = currentRenderer
          /\ currentMaxSplatCount' = currentMaxSplatCount
          /\ currentRenderer' # renderer']_vars

\* A setup that had completed for one renderer has failed to link for
\* another one.
C15_Witness ==
    /\ last.op = "setRenderer"
    /\ last.data = <<"link">>
    /\ last.err = "LinkError"
    /\ currentRenderer # 0
    /\ renderer # currentRenderer

(***************************************************************************)
(* SpecScenes: getScene and getSceneTransform called with indexes below,   *)
(* in and above the range of the scenes of a mesh built over no, one or    *)
(* two splat buffers, with and without a position for the first scene.     *)
(***************************************************************************)
SceneIndexes == (0 - 2)..3

\* What the caller's outTransform holds before the call.
OutTransformBefore == 9

NextScenes ==
    \/ \E splatBuffers \in {<<>>, <<1>>, <<2, 1>>}, sceneOptions \in SceneOptionLists :
          Build(splatBuffers, sceneOptions, FALSE, "ok")
    \/ \E sceneIndex \in SceneIndexes : GetScene(sceneIndex)
    \/ \E sceneIndex \in SceneIndexes : GetSceneTransform(sceneIndex, OutTransformBefore)

SpecScenes == InitSetup /\ [][NextScenes]_vars

(***************************************************************************)
(* C16.  getScene(i) throws the invalid scene index error for every i < 0  *)
(* and every i >= scenes.length and returns scenes[i] otherwise;           *)
(* getSceneTransform(i, out) throws for such an i with out as it was, and  *)
(* stores the transform of scenes[i] in out otherwise.                     *)
(***************************************************************************)
C16_SceneIndexIsChecked ==
    last.op \in {"getScene", "getSceneTransform"} =>
        IF last.data[1] < 0 \/ last.data[1] >= Len(scenes)
        THEN /\ last.err = "InvalidSceneIndex"
             /\ last.op = "getSceneTransform" => last.data[2] = OutTransformBefore
        ELSE /\ last.err = "none"
             /\ last.op = "getScene" => last.data[2] = scenes[last.data[1] + 1]
             /\ last.op = "getSceneTransform" =>
                   last.data[2] = scenes[last.data[1] + 1].transform

\* getSceneTransform was asked for the scene just past the last one of a
\* mesh of two scenes.
C16_Witness ==
    /\ last.op = "getSceneTransform"
    /\ Len(scenes) = 2
    /\ last.data[1] = 2
    /\ last.err = "InvalidSceneIndex"
    /\ last.data[2] = OutTransformBefore

(***************************************************************************)
(* SpecTextureSizes: computeDataTextureSize applied to max splat counts    *)
(* around every count at which the height doubles, up to MaxDoublings      *)
(* doublings, for the elements per texel and per splat of the three data   *)
(* textures, next to full builds of static and dynamic meshes.             *)
(***************************************************************************)
MaxDoublings == 3

ElementsPerTexel == {1, 2, 4}

ElementsPerSplat == {4, 6}

\* The largest max splat count a texture of 4096 x (1024 * 2^k) texels holds.
LargestCountFor(k, elementsPerTexel, elementsPerSplat) ==
    (4096 * 1024 * (2 ^ k) * elementsPerTexel) \div elementsPerSplat

TextureMaxSplatCounts ==
    (0..MaxSplats) \cup
    UNION {{LargestCountFor(k, elementsPerTexel, elementsPerSplat) + d :
               d \in {0 - 1, 0, 1}} :
           k \in 0..MaxDoublings, elementsPerTexel \in ElementsPerTexel,
           elementsPerSplat \in ElementsPerSplat}

ComputeDataTextureSize(maxSplatCount, elementsPerTexel, elementsPerSplat) ==
    /\ pure' = [in |-> <<maxSplatCount, elementsPerTexel, elementsPerSplat>>,
                applied |-> TRUE,
                texSize |-> computeDataTextureSize(maxSplatCount, elementsPerTexel,
                                                   elementsPerSplat)]
    /\ UNCHANGED <<MeshVars, TreeVars, loader>>

NextTextureSizes ==
    \/ \E splatBuffers \in {<<1>>, <<2, 1>>} : Build(splatBuffers, <<>>, FALSE, "ok")
    \/ \E maxSplatCount \in TextureMaxSplatCounts, elementsPerTexel \in ElementsPerTexel,
          elementsPerSplat \in ElementsPerSplat :
          ComputeDataTextureSize(maxSplatCount, elementsPerTexel, elementsPerSplat)

SpecTextureSizes == InitUpdate /\ [][NextTextureSizes]_vars

\* A texture of 4096 x (1024 * 2^k) texels holds maxSplatCount splats.
HoldsAll(k, maxSplatCount, elementsPerTexel, elementsPerSplat) ==
    4096 * 1024 * (2 ^ k) * elementsPerTexel >= maxSplatCount * elementsPerSplat

\* size is 4096 wide and 1024 * 2^k high for the smallest k that holds all
\* (a count of four texels' worth of elements per splat in one-element
\* texels takes up to three doublings more than MaxDoublings).
SmallestSize(size, maxSplatCount, elementsPerTexel, elementsPerSplat) ==
    \E k \in 0..(MaxDoublings + 3) :
        /\ size = <<4096, 1024 * (2 ^ k)>>
        /\ HoldsAll(k, maxSplatCount, elementsPerTexel, elementsPerSplat)
        /\ \A j \in 0..(k - 1) :
              ~HoldsAll(j, maxSplatCount, elementsPerTexel, elementsPerSplat)

\* The padded array of a texture has one element per element of its texels,
\* and the texture has the smallest size for the mesh's max splat count.
PaddedToSize(textureDesc, elementsPerTexel, elementsPerSplat) ==
    /\ textureDesc.texture = "live"
    /\ textureDesc.length = textureDesc.size[1] * textureDesc.size[2] * elementsPerTexel
    /\ SmallestSize(textureDesc.size, getMaxSplatCount(This), elementsPerTexel,
                    elementsPerSplat)

(***************************************************************************)
(* C17.  computeDataTextureSize returns, for every max splat count and     *)
(* every elements per texel and per splat, width 4096 and height           *)
(* 1024 * 2^k for the smallest k >= 0 with width * height *                *)
(* elementsPerTexel >= maxSplatCount * elementsPerSplat; the padded arrays *)
(* of the covariances, center/colors and (dynamic mode) transform indexes  *)
(* textures of a built mesh have width * height * elementsPerTexel         *)
(* elements.                                                               *)
(***************************************************************************)
C17_TextureSizeIsSmallestDoubling ==
    /\ pure.applied => SmallestSize(pure.texSize, pure.in[1], pure.in[2], pure.in[3])
    /\ splatDataTextures.state = "built" =>
          /\ PaddedToSize(splatDataTextures.covariances, 2, 6)
          /\ PaddedToSize(splatDataTextures.centerColors, 4, 4)
          /\ cfg.dynamicMode => PaddedToSize(splatDataTextures.tansformIndexes, 1, 4)

\* The height was doubled twice for a count one above what 2048 rows hold,
\* on a dynamic mesh whose three textures are built.
C17_Witness ==
    /\ pure.applied
    /\ pure.in = <<LargestCountFor(1, 2, 6) + 1, 2, 6>>
    /\ pure.texSize = <<4096, 4096>>
    /\ splatDataTextures.state = "built"
    /\ cfg.dynamicMode
    /\ splatDataTextures.tansformIndexes.length = 4096 * 1024

(***************************************************************************)
(* The splat projector (the vertex shader of buildMaterial), from the      *)
(* packed color to the second basis vector.  The packed color is a 32-bit  *)
(* unsigned word, kept as its two 16-bit halves <<high, low>>; a float     *)
(* that is a count of 255ths is kept as the fraction <<count, 255>>.       *)
(***************************************************************************)
\* step(edge, x) with <= for <: zero also at the edge.
stepAtOrBelowEdge(edge, x) == IF x[1] * edge[2] <= edge[1] * x[2] THEN 0 ELSE 1

\* step(edge, x) of GLSL: 0.0 if x < edge, 1.0 otherwise.
step(edge, x) == IF x[1] * edge[2] < edge[1] * x[2] THEN 0 ELSE 1

\* urgba = (mask4 & u) >> shift4; rgba = vec4(urgba) * encodeNorm4.
uintToRGBAVec(u) ==
    <<<<u[2] % 256, 255>>, <<(u[2] \div 256) % 256, 255>>,
      <<u[1] % 256, 255>>, <<(u[1] \div 256) % 256, 255>>>>

\* transparentAdjust = step(1.0 / 255.0, vColor.a)
transparentAdjust(sampledCenterColor) ==
    step(<<1, 255>>, uintToRGBAVec(sampledCenterColor)[4])

\* eigenValue2 = eigenValue2 * transparentAdjust
AdjustedEigenValue2(eigenValue2, sampledCenterColor) ==
    eigenValue2 * transparentAdjust(sampledCenterColor)

\* eigenVector2 = vec2(eigenVector1.y, -eigenVector1.x)
EigenVector2(eigenVector1) == <<eigenVector1[2], 0 - eigenVector1[1]>>

\* basisVector2 = eigenVector2 * sqrt8 * sqrt(eigenValue2), as the squares of
\* its two components (in the units of the squared eigenvector).
BasisVector2Squared(eigenVector1, eigenValue2) ==
    <<EigenVector2(eigenVector1)[1] * EigenVector2(eigenVector1)[1] * 8 * eigenValue2,
      EigenVector2(eigenVector1)[2] * EigenVector2(eigenVector1)[2] * 8 * eigenValue2>>

(***************************************************************************)
(* SpecProjector: the projector applied to every alpha byte under two      *)
(* values of each other byte of the packed color, for positive second      *)
(* eigenvalues and first eigenvectors along an axis and askew.             *)
(***************************************************************************)
PackedColors ==
    {<<alpha * 256 + blue, green * 256 + red>> :
        alpha \in 0..255, blue \in {0, 255}, green \in {0, 255}, red \in {0, 255}}

EigenValues2 == {1, 3}

EigenVectors1 == {<<1, 0>>, <<3, 4>>}

InitProjector ==
    /\ NewMesh(Configuration(FALSE, FALSE))
    /\ \E sampledCenterColor \in PackedColors, eigenValue2 \in EigenValues2,
          eigenVector1 \in EigenVectors1 :
          pure = [in |-> [sampledCenterColor |-> sampledCenterColor,
                          eigenValue2 |-> eigenValue2,
                          eigenVector1 |-> eigenVector1],
                  applied |-> FALSE, eigenValue2 |-> eigenValue2,
                  basisVector2Squared |-> <<0, 0>>]
    /\ NoSplatTrees
    /\ loader = NoLoader

ProjectSplat ==
    /\ ~pure.applied
    /\ pure' = [in |-> pure.in, applied |-> TRUE,
                eigenValue2 |->
                    AdjustedEigenValue2(pure.in.eigenValue2, pure.in.sampledCenterColor),
                basisVector2Squared |->
                    BasisVector2Squared(pure.in.eigenVector1,
                        AdjustedEigenValue2(pure.in.eigenValue2,
                                            pure.in.sampledCenterColor))]
    /\ UNCHANGED <<MeshVars, TreeVars, loader>>

NextProjector == ProjectSplat

SpecProjector == InitProjector /\ [][NextProjector]_vars

\* The alpha byte of the color the projector was given.
AlphaByteIn == pure.in.sampledCenterColor[1] \div 256

\* The second eigenvalue and basis vector are zero / as they were computed.
SecondExtentZero ==
    pure.eigenValue2 = 0 /\ pure.basisVector2Squared = <<0, 0>>

SecondExtentUnchanged ==
    /\ pure.eigenValue2 = pure.in.eigenValue2
    /\ pure.basisVector2Squared =
          BasisVector2Squared(pure.in.eigenVector1, pure.in.eigenValue2)

(***************************************************************************)
(* C18 as stated.  For every splat whose alpha is at or below 1/255 (alpha *)
(* byte 0 or 1) the projector sets the second eigenvalue to zero and the   *)
(* second basis vector is the zero vector; for every larger alpha the      *)
(* second eigenvalue is unchanged.                                         *)
(***************************************************************************)
C18_AlphaAtOrBelowFloorHidesSplat ==
    pure.applied =>
        IF AlphaByteIn <= 1 THEN SecondExtentZero ELSE SecondExtentUnchanged

(***************************************************************************)
(* C18 amended.  For every splat whose alpha is below 1/255 (alpha byte 0) *)
(* the projector sets the second eigenvalue to zero and the second basis   *)
(* vector is the zero vector; for every alpha of 1/255 or more (alpha byte *)
(* 1 to 255) the second eigenvalue is unchanged.                           *)
(***************************************************************************)
C18_AlphaBelowFloorHidesSplat ==
    pure.applied =>
        IF AlphaByteIn = 0 THEN SecondExtentZero ELSE SecondExtentUnchanged

\* A splat of alpha byte 1 was projected and kept its second extent.
C18_Witness ==
    /\ pure.applied
    /\ AlphaByteIn = 1
    /\ pure.eigenValue2 = 3
    /\ pure.basisVector2Squared # <<0, 0>>

(***************************************************************************)
(* SpecFixedPoint: the fixed-point distance of one splat, from the float   *)
(* center and the float row of the view/transform matrix to the int the    *)
(* shader writes.  Centers and rows are multiples of 1/16 (exact as        *)
(* floats, and not all multiples of 1/1000), near the origin and far       *)
(* enough from it for the product to leave 32 bits.                        *)
(***************************************************************************)
InputDenominator == 16

FloatCenters ==
    {<<x, y, z>> : x \in {0 - 17, 1, 16, 48000}, y \in {0, 3}, z \in {0, 0 - 5}}

FloatRows ==
    {<<x, y, z, w>> : x \in {16, 7, 0 - 3}, y \in {0, 5}, z \in {0, 1}, w \in {0, 9}}

InitFixedPoint ==
    /\ NewMesh(Configuration(FALSE, TRUE))
    /\ \E center \in FloatCenters, row \in FloatRows, dynamicMode \in BOOLEAN :
          pure = [in |-> [center |-> center, row |-> row, dynamicMode |-> dynamicMode],
                  applied |-> FALSE, intCenter |-> <<>>, intRow |-> <<>>,
                  distance |-> 0]
    /\ NoSplatTrees
    /\ loader = NoLoader

\* The center as getIntegerCenters(true) encodes it, and the row as
\* getIntegerMatrixArray does.
EncodedCenter4(center) ==
    <<RoundedThousandfold(center[1], InputDenominator),
      RoundedThousandfold(center[2], InputDenominator),
      RoundedThousandfold(center[3], InputDenominator), 1000>>

EncodedRow(row) ==
    [k \in 1..4 |-> RoundedThousandfold(row[k], InputDenominator)]

ComputeFixedPointDistance ==
    /\ ~pure.applied
    /\ pure' = [in |-> pure.in, applied |-> TRUE,
                intCenter |-> EncodedCenter4(pure.in.center),
                intRow |-> EncodedRow(pure.in.row),
                distance |-> IntegerDistance(EncodedCenter4(pure.in.center), 0,
                                EncodedRow(pure.in.row), pure.in.dynamicMode)]
    /\ UNCHANGED <<MeshVars, TreeVars, loader>>

NextFixedPoint == ComputeFixedPointDistance

SpecFixedPoint == InitFixedPoint /\ [][NextFixedPoint]_vars

Abs(v) == IF v < 0 THEN 0 - v ELSE v

\* The multiplied terms of the shader: x, y, z and, in dynamic mode, w.
FixedPointTerms == IF pure.in.dynamicMode THEN 1..4 ELSE 1..3

\* The float center with its fourth component 1.0, in sixteenths.
FloatCenter4 == Append(pure.in.center, InputDenominator)

\* Every product is at most a quarter of 2^31 - 1 in size: no product and
\* no partial sum leaves 32 bits.
NothingWraps ==
    \A i \in FixedPointTerms :
        \/ pure.intCenter[i] = 0
        \/ Abs(pure.intRow[i]) <= 536870911 \div Abs(pure.intCenter[i])

\* Four times what the product of term i is above 1000^2 times the product
\* of the floats: 4 * (62.5 C) * (62.5 T) = 15625 * C * T.
TermErrorTimes4(i) ==
    4 * pure.intCenter[i] * pure.intRow[i] - 15625 * FloatCenter4[i] * pure.in.row[i]

\* The exact sum of the products of the encoded values (when nothing wraps).
RECURSIVE SumOfProducts(_)
SumOfProducts(i) ==
    IF i = 0 THEN 0 ELSE pure.intCenter[i] * pure.intRow[i] + SumOfProducts(i - 1)

\* The sum over the terms of C * T, in 1/256ths.
RECURSIVE FloatDotTimes256(_)
FloatDotTimes256(i) ==
    IF i = 0 THEN 0 ELSE FloatCenter4[i] * pure.in.row[i] + FloatDotTimes256(i - 1)

TermCount == Cardinality(FixedPointTerms)

\* Only the x term is not zero, both its factors are positive, and their
\* product is from 2^31 to 2^32 - 2.
OneProductWrapsOnce ==
    /\ \A i \in FixedPointTerms \ {1} : pure.intCenter[i] * pure.intRow[i] = 0
    /\ pure.intCenter[1] > 0
    /\ pure.intRow[1] > 0
    /\ pure.intCenter[1] > 2147483647 \div pure.intRow[1]
    /\ (pure.intCenter[1] + 1) \div 2 <= 2147483647 \div pure.intRow[1]

(***************************************************************************)
(* C19 as stated.  The integer distance equals round(1000^3 * the dot      *)
(* product of the float center and row) up to 1 per multiplied term        *)
(* (stated for the inputs whose 1000^3-fold dot product is within 32       *)
(* bits: 1000^3 * C * T / 256 = 3906250 * C * T).                          *)
(***************************************************************************)
C19_DistanceIsCubeScaledDot ==
    (pure.applied /\ Abs(FloatDotTimes256(TermCount)) <= 549) =>
        Abs(pure.distance - 3906250 * FloatDotTimes256(TermCount)) <= TermCount

(***************************************************************************)
(* C19 amended.  The integer distance is the sum of the products           *)
(* round(1000 c) * round(1000 t) over x, y, z and (dynamic mode) of        *)
(* round(1000 t.w) * 1000, in wrapping 32-bit arithmetic.  When no product *)
(* and no partial sum leaves 32 bits it is that sum exactly, and each      *)
(* product is within (|1000 c| + |1000 t|) / 2 + 1/4 of 1000^2 times the   *)
(* product of the floats; a single positive product from 2^31 to 2^32 - 2  *)
(* comes out negative.                                                     *)
(***************************************************************************)
C19_DistanceIsSquareScaledDot ==
    pure.applied =>
        /\ NothingWraps =>
              /\ pure.distance = SumOfProducts(TermCount)
              /\ \A i \in FixedPointTerms :
                    Abs(TermErrorTimes4(i))
                        <= 125 * (Abs(FloatCenter4[i]) + Abs(pure.in.row[i])) + 1
        /\ OneProductWrapsOnce => pure.distance < 0

\* A dynamic-mode distance with a w term, nothing wrapping, whose x product
\* is more than 1 away from 1000^2 times the product of the floats.
C19_Witness ==
    /\ pure.applied
    /\ pure.in.dynamicMode
    /\ NothingWraps
    /\ pure.intRow[4] * pure.intCenter[4] # 0
    /\ Abs(TermErrorTimes4(1)) > 4
    /\ pure.distance = SumOfProducts(4)

(***************************************************************************)
(* SpecTransforms: full builds of static and dynamic meshes over one scene *)
(* or two, the first scene at the default position or moved, with splats   *)
(* arriving in the buffers, and fillSplatDataArrays called with every      *)
(* value of applySceneTransform.                                           *)
(***************************************************************************)
ApplySceneTransformValues == {"undefined", "null", "true", "false"}

NextTransforms ==
    \/ \E splatBuffers \in {<<1>>, <<2, 1>>, <<1, 2>>}, sceneOptions \in SceneOptionLists :
          Build(splatBuffers, sceneOptions, FALSE, "ok")
    \/ \E b \in SplatBuffers : LoadSplats(b)
    \/ \E applySceneTransform \in ApplySceneTransformValues :
          FillSplatDataArraysApplying(applySceneTransform)

SpecTransforms == InitUpdate /\ [][NextTransforms]_vars

\* The splats of the scenes before scene i (from 1), and the scene whose
\* splats are extracted to the splat slot.
SplatsBefore(i) == getTotalSplatCountForScenes(SubSeq(scenes, 1, i - 1), splatCount)

SceneOfSlot(slot) ==
    CHOOSE i \in 1..Len(scenes) : SplatsBefore(i) <= slot /\ slot < SplatsBefore(i + 1)

\* Element idx (from 0) of an array of n components per splat as the source
\* buffers extract it when handed the scene's transform (applied) or null.
ExtractedElement(array, n, idx, applied) ==
    IF idx \div n >= getSplatCount(This) THEN 0
    ELSE SplatValue(array, scenes[SceneOfSlot(idx \div n)].splatBuffer,
                    idx \div n - SplatsBefore(SceneOfSlot(idx \div n)), idx % n,
                    IF applied THEN scenes[SceneOfSlot(idx \div n)].transform
                    ELSE NullTransform,
                    IF cfg.halfPrecisionCovariancesOnGPU THEN 1 ELSE 0)

ExtractedArrays(applied) ==
    [covariances |-> [idx \in 1..(getMaxSplatCount(This) * 6) |->
                         ExtractedElement("covariances", 6, idx - 1, applied)],
     centers |-> [idx \in 1..(getMaxSplatCount(This) * 3) |->
                     ExtractedElement("centers", 3, idx - 1, applied)],
     colors |-> [idx \in 1..(getMaxSplatCount(This) * 4) |->
                    ExtractedElement("colors", 4, idx - 1, applied)]]

\* Whether the claim has the transform applied for the argument given.
ClaimedApplied(applySceneTransform) ==
    \/ applySceneTransform = "true"
    \/ applySceneTransform \in {"undefined", "null"} /\ ~cfg.dynamicMode

(***************************************************************************)
(* C20.  fillSplatDataArrays with applySceneTransform undefined or null    *)
(* hands each scene's transform to the extraction of the source buffer     *)
(* when the mesh is static and null when it is dynamic; true always hands  *)
(* the transform and false never.  After a full build of a dynamic mesh    *)
(* the transform-index array holds, for every global index below the splat *)
(* count, the scene index the index maps give it; a static mesh has no     *)
(* transform-index array.                                                  *)
(***************************************************************************)
C20_TransformAppliedByModeOrArgument ==
    /\ (last.op = "fillSplatDataArrays" /\ last.err = "none") =>
          last.arrays = ExtractedArrays(ClaimedApplied(last.data[1]))
    /\ (last.op = "build" /\ last.err = "none") =>
          IF cfg.dynamicMode
          THEN /\ splatDataTextures.tansformIndexes.texture = "live"
               /\ \A c \in 0..(getSplatCount(This) - 1) :
                     splatDataTextures.tansformIndexes.data[c + 1]
                         = getSceneIndexForSplat(This, c)
          ELSE splatDataTextures.tansformIndexes = NoTexture

\* A dynamic mesh of two scenes, the first one moved, whose transform
\* indexes name both scenes, was filled by default: nothing was moved.
C20_Witness ==
    /\ last.op = "fillSplatDataArrays"
    /\ last.err = "none"
    /\ last.data = <<"undefined">>
    /\ cfg.dynamicMode
    /\ Len(scenes) = 2
    /\ scenes[1].transform = 1
    /\ last.arrays.centers # ExtractedArrays(TRUE).centers
    /\ last.arrays.centers = ExtractedArrays(FALSE).centers
    /\ \E c \in 1..Len(splatDataTextures.tansformIndexes.data) :
          splatDataTextures.tansformIndexes.data[c] = 1
    /\ splatDataTextures.tansformIndexes.data[1] = 0

(***************************************************************************)
(* C21.  build takes the update path if and only if the new scenes are as  *)
(* many as those of the build before it (none, on a new mesh), their total *)
(* max splat count is the same and every scene has the splat buffer of the *)
(* scene at its position; every other build that returns is a full         *)
(* rebuild: geometry and material are built, the index maps are those of   *)
(* the new splat buffers and the textures are new ones, packed from splat  *)
(* 0 on.                                                                   *)
(***************************************************************************)
\* this.scenes is assigned by every build before anything can throw: before
\* a build it is the scenes list of the build before it.
SameScenesAsLastBuild(lastScenes, newScenes) ==
    /\ Len(newScenes) = Len(lastScenes)
    /\ getTotalMaxSplatCountForScenes(newScenes)
          = getTotalMaxSplatCountForScenes(lastScenes)
    /\ \A i \in 1..Len(newScenes) :
          i <= Len(lastScenes) => newScenes[i].splatBuffer = lastScenes[i].splatBuffer

FreshTexture(desc) ==
    desc.texture = "live" /\ ~desc.uploaded /\ desc.needsUpdate /\ desc.pushed = NoRegion

FullyRebuilt(newScenes, newGeometry, newMaterial, newSceneIndexMap, newTextures) ==
    /\ newGeometry = "built"
    /\ newMaterial = "built"
    /\ Len(newSceneIndexMap) = getTotalMaxSplatCountForScenes(newScenes)
    /\ newTextures.state = "built"
    /\ FreshTexture(newTextures.covariances)
    /\ FreshTexture(newTextures.centerColors)

C21_UpdatePathIffNothingChanged ==
    [][last'.op = "build" =>
          /\ last'.update <=> SameScenesAsLastBuild(scenes, scenes')
          /\ (~last'.update /\ last'.err = "none") =>
                FullyRebuilt(scenes', geometry', material',
                             globalSplatIndexToSceneIndexMap', splatDataTextures')]_vars

(***************************************************************************)
(* C22.  After a full build, for every global index g whose splat (the     *)
(* local index the maps give g, in the scene the maps give g) is loaded,   *)
(* the packed covariance, center and color at g, and in dynamic mode the   *)
(* transform index at g, are those of that splat.                          *)
(***************************************************************************)
\* The splat buffer of the scene the maps give g, and whether its splat at
\* the local index of g is loaded.
BufferOfGlobalIndex(g) == scenes[getSceneIndexForSplat(This, g) + 1].splatBuffer

HoldsActiveSplat(g) == getSplatLocalIndex(This, g) < splatCount[BufferOfGlobalIndex(g)]

\* Component k of the splat of g as its buffer extracts it for this mesh.
ValueOfGlobalIndex(array, g, k) ==
    SplatValue(array, BufferOfGlobalIndex(g), getSplatLocalIndex(This, g), k,
               IF cfg.dynamicMode THEN NullTransform
               ELSE scenes[getSceneIndexForSplat(This, g) + 1].transform,
               IF cfg.halfPrecisionCovariancesOnGPU THEN 1 ELSE 0)

PackedAtGlobalIndex(g) ==
    /\ \A k \in 0..5 :
          TypedGet(splatDataTextures.covariances.data, g * 6 + k)
              = ValueOfGlobalIndex("covariances", g, k)
    /\ \A k \in 0..2 :
          TypedGet(splatDataTextures.centerColors.data, g * 4 + 1 + k)
              = uintEncodedFloat(ValueOfGlobalIndex("centers", g, k))
    /\ TypedGet(splatDataTextures.centerColors.data, g * 4)
          = rgbaArrayToInteger([k \in 1..4 |-> ValueOfGlobalIndex("colors", g, k - 1)], 0)
    /\ cfg.dynamicMode =>
          TypedGet(splatDataTextures.tansformIndexes.data, g)
              = getSceneIndexForSplat(This, g)

C22_PackedDataFollowsIndexMaps ==
    (last.op = "build" /\ last.err = "none" /\ ~last.update) =>
        \A g \in 0..(Len(globalSplatIndexToSceneIndexMap) - 1) :
            HoldsActiveSplat(g) => PackedAtGlobalIndex(g)

(***************************************************************************)
(* The regions of an incremental update of one scene from lastCount to     *)
(* count splats out of maxSplatCount, with the texture sizes the full      *)
(* upload gave the three textures and the arguments the update path passes *)
(* to updateDataTexture.                                                   *)
(***************************************************************************)
\* Counts around the ends of texel rows (4096 texels, 1365 1/3 covariance
\* splats) and around the first doubling of the height.
RegionSplatCounts ==
    {0, 1, 1365, 1366, 1367, 4095, 4096, 4097, 8192, 4096 * 1024, 4096 * 1024 + 1}

RegionMaxSplatCounts == {1367, 8192, 4096 * 1024 + 1}

\* BYTES_PER_ELEMENT of the padded arrays: Uint16Array or Float32Array for
\* the covariances, Uint32Array for the other two.
CovariancesBytesPerElement(halfPrecision) == IF halfPrecision THEN 2 ELSE 4

Uint32BytesPerElement == 4

UpdateDataTextures(maxSplatCount, lastCount, count, halfPrecision) ==
    /\ lastCount <= count /\ count <= maxSplatCount
    /\ pure' = [in |-> <<maxSplatCount, lastCount, count>>,
                halfPrecision |-> halfPrecision,
                applied |-> TRUE,
                covTexSize |-> computeDataTextureSize(maxSplatCount, 2, 6),
                centersColsTexSize |-> computeDataTextureSize(maxSplatCount, 4, 4),
                transformIndexesTexSize |-> computeDataTextureSize(maxSplatCount, 1, 4),
                covariances |->
                    PushedRegion(lastCount, count,
                                 computeDataTextureSize(maxSplatCount, 2, 6), 2, 6,
                                 IF halfPrecision THEN 2 ELSE 4),
                centerColors |->
                    PushedRegion(lastCount, count,
                                 computeDataTextureSize(maxSplatCount, 4, 4), 4, 4, 4),
                tansformIndexes |->
                    PushedRegion(lastCount, count,
                                 computeDataTextureSize(maxSplatCount, 1, 4), 1, 1, 1)]
    /\ UNCHANGED <<MeshVars, TreeVars, loader>>

NextRegions ==
    \/ \E splatBuffers \in {<<1>>, <<2, 1>>} : Build(splatBuffers, <<>>, FALSE, "ok")
    \/ \E maxSplatCount \in RegionMaxSplatCounts, lastCount \in RegionSplatCounts,
          count \in RegionSplatCounts, halfPrecision \in BOOLEAN :
          UpdateDataTextures(maxSplatCount, lastCount, count, halfPrecision)

SpecRegions == InitUpdate /\ [][NextRegions]_vars

\* The pushed rows start on a row boundary and lie inside the texture.
RowsInsideTexture(region, size, elementsPerTexel) ==
    /\ region.dataStart = region.startRow * size[1] * elementsPerTexel
    /\ region.dataEnd = (region.endRow + 1) * size[1] * elementsPerTexel
    /\ 0 <= region.startRow /\ region.startRow <= region.endRow
    /\ region.endRow < size[2]

\* Every element of every splat in [lastCount, count) is in the pushed range.
ContainsNewSplats(region, lastCount, count, elementsPerSplat) ==
    \A s \in {lastCount, count - 1} :
        /\ region.dataStart <= s * elementsPerSplat
        /\ (s + 1) * elementsPerSplat <= region.dataEnd

RegionIsRight(region, size, elementsPerTexel, elementsPerSplat, realBytesPerElement) ==
    /\ RowsInsideTexture(region, size, elementsPerTexel)
    /\ ContainsNewSplats(region, pure.in[2], pure.in[3], elementsPerSplat)
    /\ region.byteOffset = region.dataStart * realBytesPerElement

(***************************************************************************)
(* C23.  In an incremental update from lastCount to count splats, the rows *)
(* pushed for each of the three packed arrays start on a texel row         *)
(* boundary, lie inside the texture and contain every element of every     *)
(* splat in [lastCount, count), and the byte offset of the pushed view is  *)
(* dataStart times the real element size of the array.                     *)
(***************************************************************************)
C23_PushedRowsCoverNewSplats ==
    (pure.applied /\ pure.in[2] < pure.in[3]) =>
        /\ RegionIsRight(pure.covariances, pure.covTexSize, 2, 6,
                         CovariancesBytesPerElement(pure.halfPrecision))
        /\ RegionIsRight(pure.centerColors, pure.centersColsTexSize, 4, 4,
                         Uint32BytesPerElement)
        /\ RegionIsRight(pure.tansformIndexes, pure.transformIndexesTexSize, 1, 1,
                         Uint32BytesPerElement)

(***************************************************************************)
(* SpecCenters: the centers buffer of the distance computation, refreshed  *)
(* by builds, by setRenderer and by direct calls, in both numeric modes,   *)
(* as splats arrive.                                                       *)
(***************************************************************************)
NextCenters ==
    \/ \E splatBuffers \in {<<1>>, <<1, 2>>, <<3>>} : Build(splatBuffers, <<>>, FALSE, "ok")
    \/ SetRenderer(1, "ok")
    \/ \E b \in SplatBuffers : LoadSplats(b)
    \/ \E sinceLastBuild \in BOOLEAN :
          UpdateGPUCentersBufferForDistancesComputation(sinceLastBuild)

SpecCenters == Init /\ [][NextCenters]_vars

\* The elements of the centers buffer per splat, and what they are for the
\* splat of global index g: its center, in thousandths and followed by 1000
\* in fixed-point mode.
CentersStride == IF cfg.integerBasedDistancesComputation THEN 4 ELSE 3

CenterElementOf(g, k) ==
    IF ~cfg.integerBasedDistancesComputation THEN ValueOfGlobalIndex("centers", g, k)
    ELSE IF k = 3 THEN 1000
    ELSE RoundedThousandfold(ValueOfGlobalIndex("centers", g, k), 1)

CentersBufferHolds(g) ==
    \A k \in 0..(CentersStride - 1) :
        TypedGet(gl.objects[distancesTransformFeedback.centersBuffer].data,
                 g * CentersStride + k) = CenterElementOf(g, k)

\* The refresh ran with a renderer and a centers buffer, past the check that
\* refuses an incremental refresh of more than one scene.
CentersRefreshed ==
    /\ last.op = "updateGPUCentersBufferForDistancesComputation"
    /\ renderer # 0
    /\ IsLive(gl, distancesTransformFeedback.centersBuffer)
    /\ last.update => Len(scenes) <= 1

(***************************************************************************)
(* C24.  After updateGPUCentersBufferForDistancesComputation with a        *)
(* renderer, in both numeric modes and for a full as for an incremental    *)
(* refresh, the call returns and the centers buffer holds the center of    *)
(* every loaded splat g at element g * stride (3 floats, or 4 integers).   *)
(***************************************************************************)
C24_CentersBufferHoldsActiveCenters ==
    CentersRefreshed =>
        /\ last.err = "none"
        /\ \A g \in 0..(Len(globalSplatIndexToSceneIndexMap) - 1) :
              HoldsActiveSplat(g) => CentersBufferHolds(g)

(***************************************************************************)
(* SpecStores: the data store of the centers buffer over builds and        *)
(* setRenderer calls on a mesh whose first buffer starts empty and is      *)
(* loaded progressively, in both numeric modes.                            *)
(***************************************************************************)
InitStores ==
    /\ \E dynamicMode \in BOOLEAN, integerBasedDistancesComputation \in BOOLEAN :
          NewMeshOver(Configuration(dynamicMode, integerBasedDistancesComputation),
                      [b \in SplatBuffers |->
                          IF b = 1 THEN 0 ELSE SplatBuffer_getMaxSplatCount(b)])
    /\ pure = NoPure
    /\ NoSplatTrees
    /\ loader = NoLoader

NextStores ==
    \/ \E splatBuffers \in {<<1>>, <<3>>, <<1, 2>>} : Build(splatBuffers, <<>>, FALSE, "ok")
    \/ \E r \in Renderers : SetRenderer(r, "ok")
    \/ \E b \in SplatBuffers : LoadSplats(b)

SpecStores == InitStores /\ [][NextStores]_vars

\* The current centers buffer has a data store of full capacity.
CentersBufferHasFullStore ==
    /\ IsLive(gl, distancesTransformFeedback.centersBuffer)
    /\ gl.objects[distancesTransformFeedback.centersBuffer].hasStore
    /\ Len(gl.objects[distancesTransformFeedback.centersBuffer].data)
          = getMaxSplatCount(This) * 16

\* The last call was an update build that wrote the centers buffer with
\* bufferSubData: it had a renderer and it returned.
UpdateBuildWroteCenters ==
    /\ last.op = "build" /\ last.update /\ last.err = "none"
    /\ cfg.enableDistancesComputationOnGPU /\ renderer # 0

(***************************************************************************)
(* C25.  Over builds and setRenderer calls, an update build writes a       *)
(* sub-range of the centers buffer (bufferSubData, which leaves the store  *)
(* as it is) only if the current centers buffer has been given a data      *)
(* store of full max-splat-count capacity by a full upload.                *)
(***************************************************************************)
C25_SubDataOnlyIntoFullStore ==
    UpdateBuildWroteCenters => CentersBufferHasFullStore

(***************************************************************************)
(* SpecKeep: builds over one scene or two with no options, with options    *)
(* for the first scene or for both, and with each of position, rotation    *)
(* and scale given or left out, keeping the transforms of the scenes       *)
(* replaced or not.                                                        *)
(***************************************************************************)
PositionOption == [NoOptions EXCEPT !.position = <<1, 0, 0>>]

RotationScaleOption == [NoOptions EXCEPT !.rotation = <<0, 0, 1, 0>>, !.scale = <<2, 2, 2>>]

AllOptions == [position |-> <<1, 0, 0>>, rotation |-> <<0, 0, 1, 0>>, scale |-> <<2, 2, 2>>]

KeepOptionLists ==
    {<<>>, <<PositionOption>>, <<AllOptions>>, <<RotationScaleOption, PositionOption>>,
     <<NoOptions, AllOptions>>}

\* build, recorded with its arguments.
BuildWithOptions(splatBuffers, sceneOptions, keepSceneTransforms) ==
    Commit(build(This, splatBuffers, sceneOptions, keepSceneTransforms, "ok"),
           "build",
           IsUpdateBuild(
               WithScenes(This, NewScenes(This, buildScenes(splatBuffers, sceneOptions),
                                          keepSceneTransforms)),
               getTotalMaxSplatCountForSplatBuffers(splatBuffers)),
           NoArrays, <<splatBuffers, sceneOptions, keepSceneTransforms>>)

NextKeep ==
    \/ \E splatBuffers \in {<<1>>, <<2, 1>>}, sceneOptions \in KeepOptionLists,
          keepSceneTransforms \in BOOLEAN :
          BuildWithOptions(splatBuffers, sceneOptions, keepSceneTransforms)
    \/ SetRenderer(1, "ok")

SpecKeep == InitUpdate /\ [][NextKeep]_vars

\* The transform data of a scene.
TransformData(scene) == <<scene.position, scene.quaternion, scene.scale>>

\* The transform data sceneOptions[i] gives, with the defaults.
TransformDataOfOptions(sceneOptions, i) ==
    IF i > Len(sceneOptions) THEN <<(<<0, 0, 0>>), <<0, 0, 0, 1>>, <<1, 1, 1>>>>
    ELSE <<IF sceneOptions[i].position = <<>> THEN <<0, 0, 0>>
           ELSE sceneOptions[i].position,
           IF sceneOptions[i].rotation = <<>> THEN <<0, 0, 0, 1>>
           ELSE sceneOptions[i].rotation,
           IF sceneOptions[i].scale = <<>> THEN <<1, 1, 1>>
           ELSE sceneOptions[i].scale>>

ScenesAsClaimed(oldScenes, newScenes, splatBuffers, sceneOptions, keepSceneTransforms) ==
    /\ Len(newScenes) = Len(splatBuffers)
    /\ \A i \in 1..Len(newScenes) :
          /\ newScenes[i].splatBuffer = splatBuffers[i]
          /\ IF keepSceneTransforms /\ i <= Len(oldScenes)
             THEN /\ TransformData(newScenes[i]) = TransformData(oldScenes[i])
                  /\ newScenes[i].transform = oldScenes[i].transform
             ELSE TransformData(newScenes[i]) = TransformDataOfOptions(sceneOptions, i)

(***************************************************************************)
(* C26.  A build with keepSceneTransforms gives every new scene that       *)
(* replaces a scene (index below both the previous and the new scene       *)
(* count) the transform data of the scene it replaces, whatever its        *)
(* options; every other scene, and every scene of a build without          *)
(* keepSceneTransforms, has the position, rotation and scale of its        *)
(* options, [0,0,0], [0,0,0,1] and [1,1,1] where they give none.           *)
(***************************************************************************)
C26_KeptOrOptionTransforms ==
    [][last'.op = "build" =>
          ScenesAsClaimed(scenes, scenes', last'.data[1], last'.data[2],
                          last'.data[3])]_vars

\* One scene built with all three options was replaced, with its transform
\* kept, by a build of two scenes that gave it other options, and a second
\* scene was added with a position option only.
C26_Witness ==
    /\ last.op = "build" /\ last.err = "none"
    /\ last.data[2] = <<RotationScaleOption, PositionOption>> /\ last.data[3]
    /\ Len(scenes) = 2
    /\ TransformData(scenes[1]) = <<(<<1, 0, 0>>), <<0, 0, 1, 0>>, <<2, 2, 2>>>>
    /\ TransformData(scenes[2]) = <<(<<1, 0, 0>>), <<0, 0, 0, 1>>, <<1, 1, 1>>>>

(***************************************************************************)
(* KSplatLoader.loadFromURL in streaming mode (streamBuiltSections true).  *)
(* The file is a header, maxSectionCount section headers and the storage   *)
(* of the sections; section s (from 0) holds s + 1 splats.  The closure    *)
(* keeps the bytes received and the flags of the code; the two blob        *)
(* assemblies and the timers are callbacks that run at any later time.     *)
(* headerParses and sectionHeaderParses count the calls of parseHeader and *)
(* parseSectionHeaders, built lists the calls of onSectionBuilt.           *)
(***************************************************************************)
\* Sizes of the model's files, in bytes, and their number of sections.
HeaderSizeBytes == 2

SectionHeaderSizeBytes == 1

MaxSectionBytes == 2

MaxSections == 3

KSplatFiles ==
    UNION {[1..n -> 1..MaxSectionBytes] : n \in 0..MaxSections}

\* The file of the call: storageSizeBytes of its sections.
SectionHeadersEnd(l) ==
    HeaderSizeBytes + SectionHeaderSizeBytes * Len(l.file)

SectionEnd(l, s) ==
    SectionHeadersEnd(l) + SumSeq(SubSeq(l.file, 1, s + 1))

FileSizeBytes(l) == SectionHeadersEnd(l) + SumSeq(l.file)

SectionSplatCount(s) == s + 1

LoadFromURL(file) ==
    [call |-> "loadFromURL", file |-> file, bytesLoaded |-> 0,
     headerLoaded |-> FALSE, headerLoading |-> FALSE,
     sectionHeadersLoaded |-> FALSE, sectionHeadersLoading |-> FALSE,
     sectionLoaded |-> {}, sectionCount |-> 0, fullBuffer |-> FALSE,
     timers |-> 0, sectionsLoadResolved |-> FALSE, fetched |-> FALSE,
     resolved |-> FALSE,
     headerParses |-> 0, sectionHeaderParses |-> 0, built |-> <<>>]

\* header.maxSectionCount, once the header is parsed.
maxSectionCount(l) == Len(l.file)

checkAndLoadHeader(l) ==
    IF ~l.headerLoaded /\ ~l.headerLoading /\ l.bytesLoaded >= HeaderSizeBytes
    THEN [l EXCEPT !.headerLoading = TRUE]
    ELSE l

checkAndLoadSectionHeaders(l) ==
    IF /\ ~l.sectionHeadersLoading /\ ~l.sectionHeadersLoaded /\ l.headerLoaded
       /\ l.bytesLoaded >= HeaderSizeBytes + SectionHeaderSizeBytes * maxSectionCount(l)
    THEN [l EXCEPT !.sectionHeadersLoading = TRUE]
    ELSE l

\* The body of the loop of checkAndLoadSections for a section whose bytes are in.
BuildSection(l, sectionToLoad) ==
    IF sectionToLoad \in l.sectionLoaded THEN l
    ELSE [l EXCEPT
            !.sectionLoaded = @ \cup {sectionToLoad},
            !.sectionCount = @ + 1,
            !.built = Append(@,
                [section |-> sectionToLoad, sectionCount |-> l.sectionCount + 1,
                 splatCount |->
                    SumSeq([s \in 1..(l.sectionCount + 1) |-> SectionSplatCount(s - 1)]),
                 bytesLoaded |-> l.bytesLoaded]),
            !.sectionsLoadResolved = @ \/ l.sectionCount + 1 >= maxSectionCount(l),
            !.timers = IF l.sectionCount + 1 >= maxSectionCount(l) THEN @ ELSE @ + 1]

RECURSIVE LoadSectionsFrom(_, _, _)
LoadSectionsFrom(l, i, byteOffset) ==
    IF i > maxSectionCount(l) THEN l
    ELSE IF l.bytesLoaded >= byteOffset
    THEN LoadSectionsFrom(BuildSection(l, i - 1), i + 1,
                          IF i < maxSectionCount(l) THEN byteOffset + l.file[i + 1]
                          ELSE byteOffset)
    ELSE LoadSectionsFrom(l, i + 1, byteOffset)

\* The byte offset the loop starts from, with the section headers only.
OffsetOfSectionHeadersEnd(l) == SectionHeadersEnd(l)

\* The byte offset the loop starts from: the end of section sectionCount.
FirstByteOffset(l) ==
    SectionHeadersEnd(l)
        + SumSeq([i \in 1..(IF l.sectionCount + 1 < maxSectionCount(l)
                            THEN l.sectionCount + 1 ELSE maxSectionCount(l)) |->
                     l.file[i]])

checkAndLoadSections(l) ==
    IF ~l.sectionHeadersLoaded THEN l
    ELSE LoadSectionsFrom(l, l.sectionCount + 1, FirstByteOffset(l))

\* localOnProgress with streamBuiltSections; chunk is the byte length of the
\* chunk, 0 for a call without a chunk.
localOnProgress(l, chunk) ==
    checkAndLoadSections(
        checkAndLoadSectionHeaders(
            checkAndLoadHeader([l EXCEPT !.bytesLoaded = @ + chunk])))

\* The network delivers the next chunk, of any length.
ChunkArrives(chunk) ==
    /\ loader.call = "loadFromURL"
    /\ loader.bytesLoaded + chunk <= FileSizeBytes(loader)
    /\ loader' = localOnProgress(loader, chunk)
    /\ UNCHANGED <<MeshVars, pure, TreeVars>>

\* headerAssemblyPromise.then
HeaderAssembled ==
    /\ loader.call = "loadFromURL"
    /\ loader.headerLoading
    /\ loader' = checkAndLoadSectionHeaders(
                    [loader EXCEPT !.headerLoading = FALSE, !.headerLoaded = TRUE,
                                   !.headerParses = @ + 1])
    /\ UNCHANGED <<MeshVars, pure, TreeVars>>

\* sectionHeadersAssemblyPromise.then
SectionHeadersAssembled ==
    /\ loader.call = "loadFromURL"
    /\ loader.sectionHeadersLoading
    /\ loader' = [loader EXCEPT !.sectionHeadersLoading = FALSE,
                                !.sectionHeadersLoaded = TRUE,
                                !.sectionHeaderParses = @ + 1,
                                !.fullBuffer = TRUE,
                                !.timers = @ + 1]
    /\ UNCHANGED <<MeshVars, pure, TreeVars>>

\* window.setTimeout(() => checkAndLoadSections(), 100)
TimerFires ==
    /\ loader.call = "loadFromURL"
    /\ loader.timers > 0
    /\ loader' = checkAndLoadSections([loader EXCEPT !.timers = @ - 1])
    /\ UNCHANGED <<MeshVars, pure, TreeVars>>

\* fetchWithProgress resolves with the whole file.
FetchCompletes ==
    /\ loader.call = "loadFromURL"
    /\ loader.bytesLoaded = FileSizeBytes(loader)
    /\ ~loader.fetched
    /\ loader' = [loader EXCEPT !.fetched = TRUE]
    /\ UNCHANGED <<MeshVars, pure, TreeVars>>

\* sectionsLoadPromise.then of the fetch's then: the promise returned resolves.
LoadResolves ==
    /\ loader.call = "loadFromURL"
    /\ loader.fetched /\ loader.sectionsLoadResolved /\ ~loader.resolved
    /\ loader' = [loader EXCEPT !.resolved = TRUE]
    /\ UNCHANGED <<MeshVars, pure, TreeVars>>

InitLoader ==
    /\ NewMesh(Configuration(FALSE, FALSE))
    /\ pure = NoPure
    /\ NoSplatTrees
    /\ \E file \in KSplatFiles : loader = LoadFromURL(file)

NextLoader ==
    \/ \E chunk \in 0..(HeaderSizeBytes + MaxSections * (SectionHeaderSizeBytes + MaxSectionBytes)) :
          ChunkArrives(chunk)
    \/ HeaderAssembled
    \/ SectionHeadersAssembled
    \/ TimerFires
    \/ FetchCompletes
    \/ LoadResolves

SpecLoader == InitLoader /\ [][NextLoader]_vars

(***************************************************************************)
(* C27.  For every chunking and every interleaving with the two            *)
(* assemblies: the header and the section headers are parsed at most once  *)
(* and the section headers only with the header parsed; the k-th call of   *)
(* onSectionBuilt is for section k - 1, made with at least the bytes up to *)
(* the end of that section received, and with loaded counts of k sections  *)
(* and the splats of the first k sections; once the load has resolved both *)
(* were parsed once and every section was reported.                        *)
(***************************************************************************)
C27_SectionsBuiltOnceInOrder ==
    loader.call = "loadFromURL" =>
        /\ loader.headerParses <= 1 /\ loader.sectionHeaderParses <= 1
        /\ loader.sectionHeaderParses = 1 => loader.headerParses = 1
        /\ loader.built # <<>> => loader.sectionHeaderParses = 1
        /\ Len(loader.built) <= maxSectionCount(loader)
        /\ \A k \in 1..Len(loader.built) :
              /\ loader.built[k].section = k - 1
              /\ loader.built[k].bytesLoaded >= SectionEnd(loader, k - 1)
              /\ loader.built[k].sectionCount = k
              /\ loader.built[k].splatCount
                    = SumSeq([s \in 1..k |-> SectionSplatCount(s - 1)])
        /\ loader.resolved =>
              /\ loader.headerParses = 1 /\ loader.sectionHeaderParses = 1
              /\ Len(loader.built) = maxSectionCount(loader)

\* Both sections of a file were reported, the second one by a later call of
\* checkAndLoadSections than the first, and the load has resolved.
C27_Witness ==
    /\ loader.call = "loadFromURL"
    /\ loader.resolved
    /\ Len(loader.built) = 2
    /\ loader.built[1].bytesLoaded < loader.built[2].bytesLoaded

(***************************************************************************)
(* FairSpecLoader: the callbacks of the load are run: an assembly that was *)
(* started completes, a timer that was set fires, the fetch completes once *)
(* the last byte is in and a promise whose two parts are settled resolves. *)
(* Nothing is assumed of the arrival of chunks.                            *)
(***************************************************************************)
FairSpecLoader ==
    /\ SpecLoader
    /\ WF_vars(HeaderAssembled)
    /\ WF_vars(SectionHeadersAssembled)
    /\ WF_vars(TimerFires)
    /\ WF_vars(FetchCompletes)
    /\ WF_vars(LoadResolves)

AllBytesDelivered ==
    loader.call = "loadFromURL" /\ loader.bytesLoaded = FileSizeBytes(loader)

LoadResolved == loader.call = "loadFromURL" /\ loader.resolved

(***************************************************************************)
(* C28.  The promise of a streaming load resolves only after the fetch has *)
(* completed and all maxSectionCount sections were reported built, and     *)
(* once every byte of the file is delivered it eventually resolves, for    *)
(* every number of sections, none included.                                *)
(***************************************************************************)
C28_ResolvesOnceAllDelivered ==
    /\ [](LoadResolved =>
            /\ loader.fetched
            /\ Len(loader.built) = maxSectionCount(loader))
    /\ AllBytesDelivered ~> LoadResolved


(***************************************************************************)
(* SpecLeaves: two trees of small maxDepth and maxCentersPerNode process   *)
(* the three meshes, with the default filter or with one that only the     *)
(* splats of odd index pass; the worker and the main thread handle the     *)
(* messages.  A call is made once the call before it is resolved.          *)
(***************************************************************************)
LeafMeshes == {1, 2, 3}

\* Tree 1 is constructed with maxDepth 0 and maxCentersPerNode 2, tree 2
\* with maxDepth 1 and maxCentersPerNode 1.
LeafTreeMaxDepth(tree) == tree - 1

LeafTreeMaxCentersPerNode(tree) == 3 - tree

WorkerIdle ==
    /\ \A i \in 1..Len(splatTreeWorker.inbox) : splatTreeWorker.inbox[i].kind = "init"
    /\ splatTreeWorker.outbox = <<>>

NextLeaves ==
    \/ \E tree \in SplatTreeIds, splatMesh \in LeafMeshes, filter \in TreeFilters :
          /\ WorkerIdle
          /\ ProcessSplatMeshOf(tree, LeafTreeMaxDepth(tree),
                                LeafTreeMaxCentersPerNode(tree), splatMesh, filter)
    \/ WorkerOnMessage
    \/ SplatTreeOnMessage

SpecLeaves == InitTrees /\ [][NextLeaves]_vars

\* splatMesh.getSplatCount()
TreeMeshSplatCount(splatMesh) == SumSeq(TreeMeshSplatCounts(splatMesh))

\* The leaves of a tree, each named by its subtree and its place in
\* nodesWithIndexes, and those whose index list holds a splat.
LeavesOf(tree) ==
    {<<s, n>> \in (1..Len(tree.subTrees)) \X (1..64) :
        n <= Len(tree.subTrees[s].nodesWithIndexes)}

LeafOf(tree, leaf) == tree.subTrees[leaf[1]].nodesWithIndexes[leaf[2]]

OccurrencesIn(indexes, g) == Cardinality({i \in 1..Len(indexes) : indexes[i] = g})

LeavesHolding(tree, g) ==
    {leaf \in LeavesOf(tree) : OccurrencesIn(LeafOf(tree, leaf).indexes, g) > 0}

\* The latest call, and whether its promise is resolved.
LastCall == processCalls[Len(processCalls)]

LastCallResolved ==
    /\ processCalls # <<>>
    /\ LastCall.promise = "resolved"

EverySplatInOneLeaf(call) ==
    \A g \in 0..(TreeMeshSplatCount(call.splatMesh) - 1) :
        /\ filterFunc(call.filter, g) =>
              /\ Cardinality(LeavesHolding(splatTrees[call.tree], g)) = 1
              /\ \A leaf \in LeavesHolding(splatTrees[call.tree], g) :
                    OccurrencesIn(LeafOf(splatTrees[call.tree], leaf).indexes, g) = 1
        /\ ~filterFunc(call.filter, g) => LeavesHolding(splatTrees[call.tree], g) = {}

LeavesSmallOrDeep(call) ==
    \A leaf \in LeavesOf(splatTrees[call.tree]) :
        \/ Len(LeafOf(splatTrees[call.tree], leaf).indexes) < call.maxCentersPerNode
        \/ LeafOf(splatTrees[call.tree], leaf).depth > call.maxDepth

(***************************************************************************)
(* C29.  Once the promise of processSplatMesh is resolved, every splat of  *)
(* the mesh with a global index below getSplatCount() that passes the      *)
(* filter is in the index list of exactly one leaf of exactly one subtree, *)
(* once; no splat that fails the filter is in any leaf; and every leaf     *)
(* holds fewer than maxCentersPerNode splats or is deeper than maxDepth.   *)
(* This is claimed for static and dynamic meshes of any number of scenes.  *)
(***************************************************************************)
C29_EverySplatInExactlyOneLeaf ==
    LastCallResolved =>
        /\ EverySplatInOneLeaf(LastCall)
        /\ LeavesSmallOrDeep(LastCall)

\* The same for the meshes the code handles: dynamic ones, and static ones
\* of one scene.
C29_HoldsForDynamicOrOneScene ==
    (/\ LastCallResolved
     /\ \/ TreeMeshDynamicMode(LastCall.splatMesh)
        \/ Len(TreeMeshSplatCounts(LastCall.splatMesh)) = 1) =>
        /\ EverySplatInOneLeaf(LastCall)
        /\ LeavesSmallOrDeep(LastCall)

\* A divided root: some leaf is deeper than the root.
C29_DividedTree ==
    /\ LastCallResolved
    /\ \E leaf \in LeavesOf(splatTrees[LastCall.tree]) :
          /\ LeafOf(splatTrees[LastCall.tree], leaf).depth > 1
          /\ LeafOf(splatTrees[LastCall.tree], leaf).indexes # <<>>


(***************************************************************************)
(* The eigen-solve of the projector.  The terms of the 2D covariance are   *)
(* counts of hundredths: cov2Dv is <<a, b, d>> with a = cov2Dv[1] / 100.   *)
(* The trace is then a count of hundredths, traceOver2 a count of 200ths,  *)
(* and D, traceOver2 * traceOver2 and the radicand are kept as counts of   *)
(* 40000ths.  A square root is not computed: term2 is kept as its square,  *)
(* and traceOver2 - term2 is compared with zero through the squares, both  *)
(* terms being non-negative.                                               *)
(***************************************************************************)
\* Largest variance (in hundredths) of the covariances the model projects.
MaxVariance == 6

\* 0.3, in hundredths.
Dilation == 30

\* 0.1, in 40000ths.
RadicandFloor == 4000

\* cov2Dm[0][0] += 0.3; cov2Dm[1][1] += 0.3
Dilated(cov2Dm) == <<cov2Dm[1] + Dilation, cov2Dm[2], cov2Dm[3] + Dilation>>

\* D = a * d - b * b, in 40000ths.
Determinant(cov2Dv) == 4 * (cov2Dv[1] * cov2Dv[3] - cov2Dv[2] * cov2Dv[2])

\* traceOver2 = 0.5 * (a + d), in 200ths.
TraceOver2(cov2Dv) == cov2Dv[1] + cov2Dv[3]

\* max(0.1f, traceOver2 * traceOver2 - D): the square of term2, in 40000ths.
Term2Squared(cov2Dv) ==
    IF TraceOver2(cov2Dv) * TraceOver2(cov2Dv) - Determinant(cov2Dv) > RadicandFloor
    THEN TraceOver2(cov2Dv) * TraceOver2(cov2Dv) - Determinant(cov2Dv)
    ELSE RadicandFloor

\* The sign of eigenValue1 = traceOver2 + term2 for a trace that is not
\* negative: -1, 0 or 1.
EigenValue1Sign(cov2Dv) ==
    IF TraceOver2(cov2Dv) = 0 /\ Term2Squared(cov2Dv) = 0 THEN 0 ELSE 1

\* The sign of eigenValue2 = traceOver2 - term2 for a trace that is not
\* negative.
EigenValue2Sign(cov2Dv) ==
    IF TraceOver2(cov2Dv) * TraceOver2(cov2Dv) > Term2Squared(cov2Dv) THEN 1
    ELSE IF TraceOver2(cov2Dv) * TraceOver2(cov2Dv) = Term2Squared(cov2Dv) THEN 0
    ELSE 0 - 1

\* sqrt(x) of GLSL is a real number for x >= 0 and undefined for x < 0.
SqrtIsReal(sign) == sign >= 0

(***************************************************************************)
(* SpecEigen: the projector applied to symmetric positive semi-definite    *)
(* 2D covariances of small and large variances, for a transparent and an   *)
(* opaque splat.                                                           *)
(***************************************************************************)
Variances == 0..MaxVariance \cup {100, 400}

ProjectedCovariances ==
    {cov2Dm \in Variances \X ((0 - MaxVariance)..MaxVariance) \X Variances :
        cov2Dm[1] * cov2Dm[3] >= cov2Dm[2] * cov2Dm[2]}

EigenColors == {<<0, 0>>, <<255 * 256, 0>>}

InitEigen ==
    /\ NewMesh(Configuration(FALSE, FALSE))
    /\ \E cov2Dm \in ProjectedCovariances, sampledCenterColor \in EigenColors :
          pure = [in |-> [cov2Dm |-> cov2Dm, sampledCenterColor |-> sampledCenterColor],
                  applied |-> FALSE, eigenValue1 |-> 0, eigenValue2 |-> 0,
                  basisLengthsReal |-> TRUE]
    /\ NoSplatTrees
    /\ loader = NoLoader

\* The eigenvalues are recorded by their signs.
SolveEigen ==
    /\ ~pure.applied
    /\ pure' = [in |-> pure.in, applied |-> TRUE,
                eigenValue1 |-> EigenValue1Sign(Dilated(pure.in.cov2Dm)),
                eigenValue2 |->
                    AdjustedEigenValue2(EigenValue2Sign(Dilated(pure.in.cov2Dm)),
                                        pure.in.sampledCenterColor),
                basisLengthsReal |->
                    /\ SqrtIsReal(EigenValue1Sign(Dilated(pure.in.cov2Dm)))
                    /\ SqrtIsReal(AdjustedEigenValue2(
                                      EigenValue2Sign(Dilated(pure.in.cov2Dm)),
                                      pure.in.sampledCenterColor))]
    /\ UNCHANGED <<MeshVars, TreeVars, loader>>

NextEigen == SolveEigen

SpecEigen == InitEigen /\ [][NextEigen]_vars

(***************************************************************************)
(* C30.  For every symmetric positive semi-definite projected 2D           *)
(* covariance, after 0.3 is added to both diagonal terms the floored       *)
(* eigen-solve yields eigenValue1 >= eigenValue2 >= 0, so that both basis  *)
(* vector lengths sqrt(8) * sqrt(eigenvalue) are real numbers.             *)
(***************************************************************************)
C30_EigenValuesNotNegative ==
    pure.applied =>
        /\ pure.eigenValue1 >= pure.eigenValue2
        /\ pure.eigenValue2 >= 0
        /\ pure.basisLengthsReal

\* The same for the covariances whose dilated trace is 0.64 or more, and
\* for the transparent splats.
C30_HoldsForLargerTraces ==
    (/\ pure.applied
     /\ \/ TraceOver2(Dilated(pure.in.cov2Dm)) >= 64
        \/ transparentAdjust(pure.in.sampledCenterColor) = 0) =>
        /\ pure.eigenValue1 >= pure.eigenValue2
        /\ pure.eigenValue2 >= 0
        /\ pure.basisLengthsReal

=============================================================================
